---- MODULE Spec2Model ----
(***************************************************************************)
(* Launch-request protocol and URI-handler state machine of the code-dbg   *)
(* extension (src/src/extension.ts).                                       *)
(*                                                                         *)
(* Text is modelled as sequences of character codes, bytes as sequences of *)
(* naturals below 256, so that the transport encoding (JSON, UTF-8,        *)
(* base64, the query string) is computed and not assumed.                  *)
(***************************************************************************)
EXTENDS Integers, Sequences, FiniteSets, TLC

(***************************************************************************)
(* Characters and text literals                                            *)
(***************************************************************************)

\* The printable ASCII characters: codes 32..95 and 97..126.
AsciiLow ==
  " !\"#$%&'()*+,-./0123456789:;<=>?@ABCDEFGHIJKLMNOPQRSTUVWXYZ[\\]^_"

AsciiHigh == "abcdefghijklmnopqrstuvwxyz{|}~"

\* Code of a one-character string.
Code(ch) ==
  IF \E i \in 1..Len(AsciiLow) : SubSeq(AsciiLow, i, i) = ch
  THEN 31 + (CHOOSE i \in 1..Len(AsciiLow) : SubSeq(AsciiLow, i, i) = ch)
  ELSE 96 + (CHOOSE i \in 1..Len(AsciiHigh) : SubSeq(AsciiHigh, i, i) = ch)

\* A string literal as a sequence of character codes.
T(str) == [i \in 1..Len(str) |-> Code(SubSeq(str, i, i))]

\* The concatenation of a sequence of sequences.
RECURSIVE Flatten(_)
Flatten(ss) ==
  IF Len(ss) = 0 THEN <<>>
  ELSE IF Len(ss) = 1 THEN ss[1]
  ELSE LET h == Len(ss) \div 2 IN
    Flatten(SubSeq(ss, 1, h)) \o Flatten(SubSeq(ss, h + 1, Len(ss)))

\* The least index k >= i of s with Test(s, k); if there is none, the index
\* after the end of s (or i, if that is later).
FirstFrom(s, i, Test(_, _)) ==
  IF \E k \in i..Len(s) : Test(s, k)
  THEN CHOOSE k \in i..Len(s) : Test(s, k) /\ \A j \in i..(k - 1) : ~Test(s, j)
  ELSE IF i > Len(s) THEN i ELSE Len(s) + 1

\* The indices of s that satisfy Test, in order.
Where(s, Test(_, _)) ==
  SelectSeq([i \in 1..Len(s) |-> i], LAMBDA i : Test(s, i))

\* Index of the first occurrence of c in s at or after i, Len(s)+1 if none.
IndexFrom(s, c, i) == FirstFrom(s, i, LAMBDA t, k : t[k] = c)

(***************************************************************************)
(* Buffer.from(payload64, "base64").toString("utf-8")                      *)
(***************************************************************************)

\* Value of a base64 character, 64 for a character outside the alphabet.
\* Node accepts the URL-safe characters '-' and '_' as 62 and 63 too.
Unbase64(c) ==
  IF c >= 65 /\ c <= 90 THEN c - 65
  ELSE IF c >= 97 /\ c <= 122 THEN c - 71
  ELSE IF c >= 48 /\ c <= 57 THEN c + 4
  ELSE IF c = 43 \/ c = 45 THEN 62
  ELSE IF c = 47 \/ c = 95 THEN 63
  ELSE 64

\* The sextets the decoder reads: characters outside the alphabet are
\* skipped, the first '=' ends the input.
Sextets(s) ==
  LET Values(legal) == [k \in 1..Len(legal) |-> Unbase64(legal[k])] IN
  Values(SelectSeq(SubSeq(s, 1, IndexFrom(s, 61, 1) - 1),
                   LAMBDA c : Unbase64(c) < 64))

\* Groups of four sextets give three bytes; a tail of two gives one byte,
\* of three gives two, a single trailing sextet gives none.
SextetsToBytes(q) ==
  [k \in 1..((Len(q) * 6) \div 8) |->
     LET g == 4 * ((k - 1) \div 3)
         r == (k - 1) % 3 IN
     IF r = 0 THEN q[g + 1] * 4 + (q[g + 2] \div 16)
     ELSE IF r = 1 THEN (q[g + 2] % 16) * 16 + (q[g + 3] \div 4)
     ELSE (q[g + 3] % 4) * 64 + q[g + 4]]

Base64Decode(s) == SextetsToBytes(Sextets(s))

IsCont(bs, i) == i <= Len(bs) /\ bs[i] >= 128 /\ bs[i] <= 191

InRange(bs, i, lo, hi) == i <= Len(bs) /\ bs[i] >= lo /\ bs[i] <= hi

\* The number of bytes the decoder consumes at i: the longest prefix of a
\* well-formed sequence, at least one byte.
Utf8Step(bs, i) ==
  LET b == bs[i] IN
  IF b >= 194 /\ b <= 223 THEN (IF IsCont(bs, i + 1) THEN 2 ELSE 1)
  ELSE IF b >= 224 /\ b <= 239 THEN
    LET lo == IF b = 224 THEN 160 ELSE 128
        hi == IF b = 237 THEN 159 ELSE 191 IN
    IF ~InRange(bs, i + 1, lo, hi) THEN 1
    ELSE IF ~IsCont(bs, i + 2) THEN 2 ELSE 3
  ELSE IF b >= 240 /\ b <= 244 THEN
    LET lo == IF b = 240 THEN 144 ELSE 128
        hi == IF b = 244 THEN 143 ELSE 191 IN
    IF ~InRange(bs, i + 1, lo, hi) THEN 1
    ELSE IF ~IsCont(bs, i + 2) THEN 2
    ELSE IF ~IsCont(bs, i + 3) THEN 3 ELSE 4
  ELSE 1

\* The character decoded at i: U+FFFD (65533) for an ill-formed sequence.
Utf8Char(bs, i) ==
  LET b == bs[i]
      n == Utf8Step(bs, i) IN
  IF b < 128 THEN b
  ELSE IF b >= 194 /\ b <= 223 /\ n = 2 THEN (b - 192) * 64 + (bs[i + 1] - 128)
  ELSE IF b >= 224 /\ b <= 239 /\ n = 3
    THEN (b - 224) * 4096 + (bs[i + 1] - 128) * 64 + (bs[i + 2] - 128)
  ELSE IF b >= 240 /\ b <= 244 /\ n = 4
    THEN (b - 240) * 262144 + (bs[i + 1] - 128) * 4096
           + (bs[i + 2] - 128) * 64 + (bs[i + 3] - 128)
  ELSE 65533

\* A byte is consumed by a sequence begun at one of the three bytes before
\* it; a byte that begins a sequence is never itself consumed, because only
\* bytes 128..191 are.
Utf8Consumed(bs, i) ==
  \E j \in 1..(i - 1) : i - j <= 3 /\ bs[j] >= 192 /\ Utf8Step(bs, j) > i - j

\* UTF-8 decoding with U+FFFD for every ill-formed subsequence.
Utf8Decode(bs) ==
  LET Chars(starts) == [k \in 1..Len(starts) |-> Utf8Char(bs, starts[k])] IN
  Chars(Where(bs, LAMBDA t, i : ~Utf8Consumed(t, i)))

\* const decodedJson = Buffer.from(payload64, "base64").toString("utf-8")
DecodeBase64Text(payload64) == Utf8Decode(Base64Decode(payload64))

(***************************************************************************)
(* new URLSearchParams(uri.query).get("payload")                           *)
(***************************************************************************)

\* The pieces of s between occurrences of the separator c.
RECURSIVE SplitOn(_, _)
SplitOn(s, c) ==
  LET CutAt(k) ==
        IF k > Len(s) THEN <<s>>
        ELSE <<SubSeq(s, 1, k - 1)>> \o SplitOn(SubSeq(s, k + 1, Len(s)), c) IN
  CutAt(IndexFrom(s, c, 1))

HexVal(c) ==
  IF c >= 48 /\ c <= 57 THEN c - 48
  ELSE IF c >= 65 /\ c <= 70 THEN c - 55
  ELSE IF c >= 97 /\ c <= 102 THEN c - 87
  ELSE 16

\* %XY with two hexadecimal digits begins an escape at i.
IsPercentEscape(s, i) ==
  /\ s[i] = 37
  /\ i + 2 <= Len(s)
  /\ HexVal(s[i + 1]) < 16
  /\ HexVal(s[i + 2]) < 16

\* application/x-www-form-urlencoded: '+' becomes a space, %XY becomes a byte.
FormBytes(s) ==
  LET ByteAt(i) ==
        IF s[i] = 43 THEN 32
        ELSE IF IsPercentEscape(s, i) THEN HexVal(s[i + 1]) * 16 + HexVal(s[i + 2])
        ELSE s[i]
      Bytes(kept) == [k \in 1..Len(kept) |-> ByteAt(kept[k])] IN
  Bytes(Where(s, LAMBDA t, i :
                   ~\E j \in {i - 2, i - 1} : j >= 1 /\ IsPercentEscape(t, j)))

FormDecode(s) == Utf8Decode(FormBytes(s))

\* The name/value pairs of a query string, in order.
RECURSIVE FormPairs(_)
FormPairs(pieces) ==
  LET Pair(p, k) == [name |-> FormDecode(SubSeq(p, 1, k - 1)),
                     value |-> FormDecode(SubSeq(p, k + 1, Len(p)))] IN
  IF pieces = <<>> THEN <<>>
  ELSE IF Head(pieces) = <<>> THEN FormPairs(Tail(pieces))
  ELSE <<Pair(Head(pieces), IndexFrom(Head(pieces), 61, 1))>>
         \o FormPairs(Tail(pieces))

URLSearchParams(query) ==
  FormPairs(SplitOn(IF query # <<>> /\ query[1] = 63 THEN Tail(query) ELSE query, 38))

\* params.get(name): the value of the first pair with that name; null
\* (absent) is [present |-> FALSE].
ParamsGet(params, name) ==
  IF \E k \in 1..Len(params) : params[k].name = name
  THEN [present |-> TRUE,
        value |-> params[CHOOSE k \in 1..Len(params) :
                           /\ params[k].name = name
                           /\ \A j \in 1..(k - 1) : params[j].name # name].value]
  ELSE [present |-> FALSE, value |-> <<>>]

(***************************************************************************)
(* JSON.parse: values are tagged records [t, v]                            *)
(***************************************************************************)

JUndefined == [t |-> "undefined", v |-> 0]

JNull == [t |-> "null", v |-> 0]

JBool(b) == [t |-> "boolean", v |-> b]

\* A number keeps the text of its token.
JNumber(tok) == [t |-> "number", v |-> tok]

JString(str) == [t |-> "string", v |-> str]

JArray(elems) == [t |-> "array", v |-> elems]

\* An object keeps its members [k, v] in source order.
JObject(members) == [t |-> "object", v |-> members]

ParseFail == [ok |-> FALSE, v |-> JUndefined, i |-> 0]

ParseOk(val, next) == [ok |-> TRUE, v |-> val, i |-> next]

At(s, i, c) == i <= Len(s) /\ s[i] = c

IsDigit(s, i) == i <= Len(s) /\ s[i] >= 48 /\ s[i] <= 57

SkipWs(s, i) == FirstFrom(s, i, LAMBDA t, k : t[k] \notin {32, 9, 10, 13})

SkipDigits(s, i) == FirstFrom(s, i, LAMBDA t, k : ~IsDigit(t, k))

\* The character an escape letter stands for, 0 if it is no escape letter.
EscapeChar(c) ==
  CASE c = 34 -> 34 [] c = 92 -> 92 [] c = 47 -> 47 [] c = 98 -> 8
    [] c = 102 -> 12 [] c = 110 -> 10 [] c = 114 -> 13 [] c = 116 -> 9
    [] OTHER -> 0

\* The number of consecutive backslashes that end just before i, counted
\* back to position from.
BackslashRun(s, from, i) ==
  CHOOSE n \in 0..(i - from) :
    /\ \A j \in (i - n)..(i - 1) : s[j] = 92
    /\ n = i - from \/ s[i - n - 1] # 92

\* A backslash at i, after position from, begins an escape iff an even number
\* of backslashes precedes it.
BeginsEscape(s, from, i) == s[i] = 92 /\ BackslashRun(s, from, i) % 2 = 0

\* The length of the escape that begins at i: \uXXXX or \c.
EscapeLength(s, i) == IF i + 1 <= Len(s) /\ s[i + 1] = 117 THEN 6 ELSE 2

EscapeValid(s, i, last) ==
  IF i + 1 > last THEN FALSE
  ELSE IF s[i + 1] = 117
    THEN i + 5 <= last /\ \A k \in 2..5 : HexVal(s[i + k]) < 16
  ELSE EscapeChar(s[i + 1]) # 0

EscapeValue(s, i) ==
  IF s[i + 1] = 117
  THEN HexVal(s[i + 2]) * 4096 + HexVal(s[i + 3]) * 256
         + HexVal(s[i + 4]) * 16 + HexVal(s[i + 5])
  ELSE EscapeChar(s[i + 1])

\* The characters of a string literal, from the character after its opening
\* quote; i is left after the closing quote. The closing quote is the first
\* quote that no backslash escapes; control characters are not allowed.
ParseChars(s, from) ==
  LET InEscape(t, i) ==
        \E j \in from..(i - 1) :
          BeginsEscape(t, from, j) /\ i - j < EscapeLength(t, j)
      Chars(kept) ==
        [k \in 1..Len(kept) |->
           IF s[kept[k]] = 92 THEN EscapeValue(s, kept[k]) ELSE s[kept[k]]]
      Literal(close, last) ==
        IF close > Len(s) THEN ParseFail
        ELSE IF \E i \in from..last : s[i] < 32 THEN ParseFail
        ELSE IF \E i \in from..last :
                  BeginsEscape(s, from, i) /\ ~EscapeValid(s, i, last)
          THEN ParseFail
        ELSE ParseOk(JString(Chars(SelectSeq([k \in 1..(close - from) |-> from + k - 1],
                                             LAMBDA i : ~InEscape(s, i)))),
                     close + 1)
      ClosedAt(close) == Literal(close, close - 1) IN
  ClosedAt(FirstFrom(s, from, LAMBDA t, k :
                       t[k] = 34 /\ BackslashRun(t, from, k) % 2 = 0))

\* -? (0 | [1-9][0-9]*) (. [0-9]+)? ([eE] [+-]? [0-9]+)?
ParseNumber(s, i) ==
  LET Token(p1, p2, p3, p4, p5) ==
        IF p2 = p1 \/ (At(s, p2, 46) /\ p3 = p2 + 1) \/ (p4 > p3 /\ p5 = p4)
        THEN ParseFail
        ELSE ParseOk(JNumber(SubSeq(s, i, p5 - 1)), p5)
      Exponent(p1, p2, p3, p4) ==
        Token(p1, p2, p3, p4, IF p4 > p3 THEN SkipDigits(s, p4) ELSE p3)
      Fraction(p1, p2, p3) ==
        Exponent(p1, p2, p3,
                 IF At(s, p3, 101) \/ At(s, p3, 69)
                 THEN IF At(s, p3 + 1, 43) \/ At(s, p3 + 1, 45) THEN p3 + 2 ELSE p3 + 1
                 ELSE p3)
      Digits(p1, p2) ==
        Fraction(p1, p2, IF At(s, p2, 46) THEN SkipDigits(s, p2 + 1) ELSE p2)
      Sign(p1) == Digits(p1, IF At(s, p1, 48) THEN p1 + 1 ELSE SkipDigits(s, p1)) IN
  Sign(IF At(s, i, 45) THEN i + 1 ELSE i)

ParseLiteral(s, i, word, val) ==
  IF i + Len(word) - 1 <= Len(s) /\ SubSeq(s, i, i + Len(word) - 1) = word
  THEN ParseOk(val, i + Len(word))
  ELSE ParseFail

RECURSIVE ParseValue(_, _), ParseElements(_, _, _), ParseMembers(_, _, _)

\* A value, after optional white space.
ParseValue(s, i0) ==
  LET ValueAt(i) ==
        IF i > Len(s) THEN ParseFail
        ELSE IF s[i] = 34 THEN ParseChars(s, i + 1)
        ELSE IF s[i] = 91 THEN
          IF At(s, SkipWs(s, i + 1), 93)
          THEN ParseOk(JArray(<<>>), SkipWs(s, i + 1) + 1)
          ELSE ParseElements(s, i + 1, <<>>)
        ELSE IF s[i] = 123 THEN
          IF At(s, SkipWs(s, i + 1), 125)
          THEN ParseOk(JObject(<<>>), SkipWs(s, i + 1) + 1)
          ELSE ParseMembers(s, i + 1, <<>>)
        ELSE IF s[i] = 116 THEN ParseLiteral(s, i, <<116, 114, 117, 101>>, JBool(TRUE))
        ELSE IF s[i] = 102
          THEN ParseLiteral(s, i, <<102, 97, 108, 115, 101>>, JBool(FALSE))
        ELSE IF s[i] = 110 THEN ParseLiteral(s, i, <<110, 117, 108, 108>>, JNull)
        ELSE ParseNumber(s, i) IN
  ValueAt(SkipWs(s, i0))

\* The elements of an array, from the position after '[' or ','.
ParseElements(s, i, acc) ==
  LET After(elems, j) ==
        IF At(s, j, 44) THEN ParseElements(s, j + 1, elems)
        ELSE IF At(s, j, 93) THEN ParseOk(JArray(elems), j + 1)
        ELSE ParseFail
      Element(r) ==
        IF ~r.ok THEN ParseFail ELSE After(Append(acc, r.v), SkipWs(s, r.i)) IN
  Element(ParseValue(s, i))

\* The members of an object, from the position after '{' or ','.
ParseMembers(s, i, acc) ==
  LET After(m, e) ==
        IF At(s, e, 44) THEN ParseMembers(s, e + 1, m)
        ELSE IF At(s, e, 125) THEN ParseOk(JObject(m), e + 1)
        ELSE ParseFail
      Member(key, r) ==
        IF ~r.ok THEN ParseFail
        ELSE After(Append(acc, [k |-> key.v.v, v |-> r.v]), SkipWs(s, r.i))
      Colon(key, c) ==
        IF ~At(s, c, 58) THEN ParseFail ELSE Member(key, ParseValue(s, c + 1))
      Key(key) == IF ~key.ok THEN ParseFail ELSE Colon(key, SkipWs(s, key.i))
      Quote(j) == IF ~At(s, j, 34) THEN ParseFail ELSE Key(ParseChars(s, j + 1)) IN
  Quote(SkipWs(s, i))

\* JSON.parse(text): one value, then only white space. ok = FALSE is the
\* SyntaxError.
JSONParse(text) ==
  LET Whole(r) ==
        IF r.ok /\ SkipWs(text, r.i) = Len(text) + 1 THEN r ELSE ParseFail IN
  Whole(ParseValue(text, 1))

\* obj.key in JavaScript for a parsed value: the last member of that name of
\* an object, undefined otherwise. (The keys read by the handler are not
\* properties of strings, numbers, booleans or arrays, except "join".)
GetProp(val, key) ==
  IF val.t = "object" /\ \E k \in 1..Len(val.v) : val.v[k].k = key
  THEN val.v[CHOOSE k \in 1..Len(val.v) :
               /\ val.v[k].k = key
               /\ \A j \in (k + 1)..Len(val.v) : val.v[j].k # key].v
  ELSE JUndefined

\* A number token denotes zero iff its mantissa has no non-zero digit.
IsZeroToken(tok) ==
  LET NoDigit(e) == \A i \in 1..(e - 1) : ~(tok[i] >= 49 /\ tok[i] <= 57) IN
  NoDigit(FirstFrom(tok, 1, LAMBDA t, k : t[k] = 101 \/ t[k] = 69))

\* JavaScript truthiness of a parsed value.
Truthy(val) ==
  CASE val.t = "string" -> val.v # <<>>
    [] val.t = "number" -> ~IsZeroToken(val.v)
    [] val.t = "boolean" -> val.v
    [] val.t = "array" -> TRUE
    [] val.t = "object" -> TRUE
    [] OTHER -> FALSE

(***************************************************************************)
(* Request Encoder (the code-dbg command-line tool). Its script is not     *)
(* among the sources; it is modelled from the wire format of the           *)
(* specification: standard base64 of a UTF-8 JSON document                 *)
(* {"exe": ..., "args": [...], "cwd": ...} as the payload parameter.       *)
(***************************************************************************)

\* A character inside a JSON string literal.
JsonEscapeChar(c) ==
  IF c = 34 THEN <<92, 34>>
  ELSE IF c = 92 THEN <<92, 92>>
  ELSE IF c < 32 THEN
    LET hex == T("0123456789abcdef") IN
    <<92, 117, 48, 48, hex[(c \div 16) + 1], hex[(c % 16) + 1]>>
  ELSE <<c>>

JsonQuote(str) ==
  <<34>> \o Flatten([i \in 1..Len(str) |-> JsonEscapeChar(str[i])]) \o <<34>>

\* The sequences of ss with sep between them.
JoinWith(ss, sep) ==
  Flatten([k \in 1..Len(ss) |-> IF k = 1 THEN ss[k] ELSE sep \o ss[k]])

\* The JSON document of a launch request [exe, args, cwd].
JsonDocument(r) ==
  T("{\"exe\": ") \o JsonQuote(r.exe)
    \o T(", \"args\": [")
    \o JoinWith([i \in 1..Len(r.args) |-> JsonQuote(r.args[i])], T(", "))
    \o T("], \"cwd\": ") \o JsonQuote(r.cwd) \o T("}")

Utf8EncodeChar(c) ==
  IF c < 128 THEN <<c>>
  ELSE IF c < 2048 THEN <<192 + (c \div 64), 128 + (c % 64)>>
  ELSE <<224 + (c \div 4096), 128 + ((c \div 64) % 64), 128 + (c % 64)>>

Utf8Encode(str) == Flatten([i \in 1..Len(str) |-> Utf8EncodeChar(str[i])])

\* The character of a sextet in the standard base64 alphabet.
Base64Char(v) ==
  IF v < 26 THEN 65 + v
  ELSE IF v < 52 THEN 71 + v
  ELSE IF v < 62 THEN v - 4
  ELSE IF v = 62 THEN 43
  ELSE 47

\* Standard base64 with '=' padding.
Base64Encode(bs) ==
  LET Byte(i) == IF i <= Len(bs) THEN bs[i] ELSE 0 IN
  [k \in 1..(4 * ((Len(bs) + 2) \div 3)) |->
     LET g == 3 * ((k - 1) \div 4)
         r == (k - 1) % 4 IN
     IF r = 0 THEN Base64Char(Byte(g + 1) \div 4)
     ELSE IF r = 1 THEN Base64Char((Byte(g + 1) % 4) * 16 + (Byte(g + 2) \div 16))
     ELSE IF r = 2 THEN
       IF g + 2 > Len(bs) THEN 61
       ELSE Base64Char((Byte(g + 2) % 16) * 4 + (Byte(g + 3) \div 64))
     ELSE IF g + 3 > Len(bs) THEN 61 ELSE Base64Char(Byte(g + 3) % 64)]

\* <b64> of the wire format.
EncodePayload(r) == Base64Encode(Utf8Encode(JsonDocument(r)))

\* encode(request): the query of <scheme>://<host-app-id>/launch?payload=<b64>.
EncodeQuery(r) == T("payload=") \o EncodePayload(r)

(***************************************************************************)
(* path.isAbsolute, path.join, path.basename of the host platform          *)
(* (path.win32 on win32, path.posix elsewhere)                             *)
(***************************************************************************)

IsWin(platform) == platform = "win32"

IsPathSeparator(platform, c) == c = 47 \/ (IsWin(platform) /\ c = 92)

Separator(platform) == IF IsWin(platform) THEN 92 ELSE 47

IsWindowsDeviceRoot(c) == (c >= 65 /\ c <= 90) \/ (c >= 97 /\ c <= 122)

PathIsAbsolute(platform, path) ==
  IF path = <<>> THEN FALSE
  ELSE IF IsPathSeparator(platform, path[1]) THEN TRUE
  ELSE /\ IsWin(platform)
       /\ IsWindowsDeviceRoot(path[1])
       /\ Len(path) > 2
       /\ path[2] = 58
       /\ IsPathSeparator(platform, path[3])

\* The segments of a path between separators, empty ones included.
Segments(platform, path) ==
  LET Cut(seps, k) ==
        IF k = 0 THEN 0 ELSE IF k > Len(seps) THEN Len(path) + 1 ELSE seps[k]
      Between(seps) ==
        [k \in 1..(Len(seps) + 1) |->
           SubSeq(path, Cut(seps, k - 1) + 1, Cut(seps, k) - 1)] IN
  Between(Where(path, LAMBDA t, i : IsPathSeparator(platform, t[i])))

DotDot == <<46, 46>>

\* normalizeString: "." and empty segments are dropped, ".." removes the
\* segment before it, or is kept when there is none and allowAboveRoot.
RECURSIVE NormalizeSegments(_, _, _)
NormalizeSegments(segs, allowAboveRoot, acc) ==
  IF segs = <<>> THEN acc
  ELSE LET g == Head(segs) IN
    IF g = <<>> \/ g = <<46>> THEN NormalizeSegments(Tail(segs), allowAboveRoot, acc)
    ELSE IF g = DotDot THEN
      IF acc # <<>> /\ acc[Len(acc)] # DotDot
      THEN NormalizeSegments(Tail(segs), allowAboveRoot, SubSeq(acc, 1, Len(acc) - 1))
      ELSE IF allowAboveRoot
        THEN NormalizeSegments(Tail(segs), allowAboveRoot, Append(acc, g))
      ELSE NormalizeSegments(Tail(segs), allowAboveRoot, acc)
    ELSE NormalizeSegments(Tail(segs), allowAboveRoot, Append(acc, g))

NormalizeString(platform, path, allowAboveRoot) ==
  JoinWith(NormalizeSegments(Segments(platform, path), allowAboveRoot, <<>>),
           <<Separator(platform)>>)

PosixNormalize(path) ==
  IF path = <<>> THEN <<46>>
  ELSE LET Normal(isAbsolute, trailing, body) ==
             IF body = <<>> THEN
               IF isAbsolute THEN <<47>> ELSE IF trailing THEN <<46, 47>> ELSE <<46>>
             ELSE (IF isAbsolute THEN <<47>> ELSE <<>>) \o body
                    \o (IF trailing THEN <<47>> ELSE <<>>) IN
    Normal(path[1] = 47, path[Len(path)] = 47,
           NormalizeString("posix", path, path[1] # 47))

SkipNonSep(path, j) ==
  FirstFrom(path, j, LAMBDA t, k : IsPathSeparator("win32", t[k]))

SkipSep(path, j) ==
  FirstFrom(path, j, LAMBDA t, k : ~IsPathSeparator("win32", t[k]))

\* The root of a Windows path of length >= 2: a UNC root \\server\share, a
\* drive C: or C:\, a single separator, or none. rest is the index of the
\* first character after the root.
Win32Root(path) ==
  LET none == [device |-> <<>>, hasDevice |-> FALSE, isAbsolute |-> FALSE,
               rest |-> 1, rootOnly |-> FALSE] IN
  IF IsPathSeparator("win32", path[1]) THEN
    IF IsPathSeparator("win32", path[2]) THEN
      LET Unc(j1, j2, j3) ==
            IF j1 <= Len(path) /\ j1 # 3 /\ j2 <= Len(path) /\ j2 # j1
            THEN [device |-> <<92, 92>> \o SubSeq(path, 3, j1 - 1) \o <<92>>
                               \o SubSeq(path, j2, j3 - 1),
                  hasDevice |-> TRUE, isAbsolute |-> TRUE,
                  rest |-> j3, rootOnly |-> j3 = Len(path) + 1]
            ELSE [none EXCEPT !.isAbsolute = TRUE]
          Share(j1, j2) == Unc(j1, j2, SkipNonSep(path, j2))
          Server(j1) == Share(j1, SkipSep(path, j1)) IN
      Server(SkipNonSep(path, 3))
    ELSE [none EXCEPT !.isAbsolute = TRUE, !.rest = 2]
  ELSE IF IsWindowsDeviceRoot(path[1]) /\ path[2] = 58 THEN
    IF Len(path) > 2 /\ IsPathSeparator("win32", path[3])
    THEN [device |-> SubSeq(path, 1, 2), hasDevice |-> TRUE, isAbsolute |-> TRUE,
          rest |-> 4, rootOnly |-> FALSE]
    ELSE [device |-> SubSeq(path, 1, 2), hasDevice |-> TRUE, isAbsolute |-> FALSE,
          rest |-> 3, rootOnly |-> FALSE]
  ELSE none

Win32Normalize(path) ==
  IF path = <<>> THEN <<46>>
  ELSE IF Len(path) = 1 THEN (IF path[1] = 47 THEN <<92>> ELSE path)
  ELSE LET Rooted(root, tail) ==
             (IF root.hasDevice THEN root.device ELSE <<>>)
               \o (IF root.isAbsolute THEN <<92>> ELSE <<>>) \o tail
           Dotted(root, dotted) ==
             Rooted(root,
                    IF dotted # <<>> /\ IsPathSeparator("win32", path[Len(path)])
                    THEN Append(dotted, 92) ELSE dotted)
           Body(root, body) ==
             Dotted(root, IF body = <<>> /\ ~root.isAbsolute THEN <<46>> ELSE body)
           Normal(root) ==
             IF root.rootOnly THEN root.device \o <<92>>
             ELSE Body(root,
                       IF root.rest <= Len(path)
                       THEN NormalizeString("win32", SubSeq(path, root.rest, Len(path)),
                                            ~root.isAbsolute)
                       ELSE <<>>) IN
    Normal(Win32Root(path))

\* path.posix.join(a, b)
PosixJoin(a, b) ==
  IF a = <<>> /\ b = <<>> THEN <<46>>
  ELSE IF a = <<>> THEN PosixNormalize(b)
  ELSE IF b = <<>> THEN PosixNormalize(a)
  ELSE PosixNormalize(a \o <<47>> \o b)

\* path.win32.join(a, b): leading separators of the first part are reduced
\* to one unless that part itself begins a UNC path.
Win32Join(a, b) ==
  IF a = <<>> /\ b = <<>> THEN <<46>>
  ELSE LET IsUnc(firstPart) ==
             /\ Len(firstPart) > 2
             /\ IsPathSeparator("win32", firstPart[1])
             /\ IsPathSeparator("win32", firstPart[2])
             /\ ~IsPathSeparator("win32", firstPart[3])
           Joined(joined, isUnc, slashCount) ==
             IF ~isUnc /\ slashCount >= 2
             THEN Win32Normalize(<<92>> \o SubSeq(joined, slashCount + 1, Len(joined)))
             ELSE Win32Normalize(joined)
           Parts(joined) ==
             Joined(joined, IsUnc(IF a # <<>> THEN a ELSE b), SkipSep(joined, 1) - 1) IN
    Parts(IF a = <<>> THEN b ELSE IF b = <<>> THEN a ELSE a \o <<92>> \o b)

PathJoin(platform, a, b) ==
  IF IsWin(platform) THEN Win32Join(a, b) ELSE PosixJoin(a, b)

\* Index of the last character of path that is no separator, 0 if none.
LastNonSep(platform, path) ==
  IF \A i \in 1..Len(path) : IsPathSeparator(platform, path[i]) THEN 0
  ELSE CHOOSE i \in 1..Len(path) :
         /\ ~IsPathSeparator(platform, path[i])
         /\ \A j \in (i + 1)..Len(path) : IsPathSeparator(platform, path[j])

\* Index of the first character of the segment that ends at e, not before
\* start.
SegmentStart(platform, path, e, start) ==
  CHOOSE b \in start..e :
    /\ \A j \in b..e : ~IsPathSeparator(platform, path[j])
    /\ b = start \/ IsPathSeparator(platform, path[b - 1])

\* path.basename(path): the last segment, trailing separators ignored; on
\* win32 a leading drive "C:" is never part of it.
PathBasename(platform, path) ==
  LET Name(start, e) ==
        IF e < start THEN <<>>
        ELSE SubSeq(path, SegmentStart(platform, path, e, start), e) IN
  Name(IF /\ IsWin(platform)
          /\ Len(path) >= 2
          /\ IsWindowsDeviceRoot(path[1])
          /\ path[2] = 58
       THEN 3 ELSE 1,
       LastNonSep(platform, path))

(***************************************************************************)
(* handleDebugUri: the synchronous part, up to the startDebugging call     *)
(***************************************************************************)

StepOrder ==
  <<"WorkspaceCheck", "Decode", "Validate", "ResolvePath", "VerifyExecutable",
    "SelectBackend", "BuildConfiguration", "StartSession", "AutoContinue">>

NoConfig == [request |-> "none"]

\* The names of the members the handler reads.
KeyExe == T("exe")

KeyArgs == T("args")

KeyCwd == T("cwd")

KeyPayload == T("payload")

KeyToString == T("toString")

\* String(val) throws a TypeError for an object whose own "toString" member
\* shadows Object.prototype.toString (a JSON value is never callable), and
\* for an array with such an element.
RECURSIVE ToStringThrows(_)
ToStringThrows(val) ==
  IF val.t = "object" THEN GetProp(val, KeyToString).t # "undefined"
  ELSE IF val.t = "array" THEN \E k \in 1..Len(val.v) : ToStringThrows(val.v[k])
  ELSE FALSE

\* Lines 201-214: the try block. The three log lines after JSON.parse read
\* payload.exe, call payload.args.join(", ") and read payload.cwd inside the
\* same try, so a TypeError they raise is caught like a SyntaxError.
DecodePayload(payload64) ==
  LET Logged(parsed, args) ==
        IF ~parsed.ok
        THEN [ok |-> FALSE, error |-> T("SyntaxError"), payload |-> JUndefined]
        ELSE IF \/ parsed.v.t = "null"
                \/ ToStringThrows(GetProp(parsed.v, KeyExe))
                \/ args.t # "array"
                \/ ToStringThrows(args)
                \/ ToStringThrows(GetProp(parsed.v, KeyCwd))
          THEN [ok |-> FALSE, error |-> T("TypeError"), payload |-> JUndefined]
        ELSE [ok |-> TRUE, error |-> <<>>, payload |-> parsed.v]
      Parsed(parsed) == Logged(parsed, GetProp(parsed.v, KeyArgs)) IN
  Parsed(JSONParse(DecodeBase64Text(payload64)))

\* Line 218: !payload.exe || !Array.isArray(payload.args) || !payload.cwd
PayloadInvalid(payload) ==
  \/ ~Truthy(GetProp(payload, KeyExe))
  \/ GetProp(payload, KeyArgs).t # "array"
  \/ ~Truthy(GetProp(payload, KeyCwd))

\* ResolvePath joining whatever exe is.
ResolvePathAlwaysJoined(platform, payload) ==
  LET Resolved(exe, cwd) ==
        IF exe.t # "string" \/ cwd.t # "string" THEN [ok |-> FALSE, path |-> <<>>]
        ELSE [ok |-> TRUE, path |-> PathJoin(platform, cwd.v, exe.v)] IN
  Resolved(GetProp(payload, KeyExe), GetProp(payload, KeyCwd))

\* Lines 226-228. path.isAbsolute and path.join accept strings only.
ResolvePath(platform, payload) ==
  LET Resolved(exe, cwd) ==
        IF exe.t # "string" THEN [ok |-> FALSE, path |-> <<>>]
        ELSE IF PathIsAbsolute(platform, exe.v) THEN [ok |-> TRUE, path |-> exe.v]
        ELSE IF cwd.t # "string" THEN [ok |-> FALSE, path |-> <<>>]
        ELSE [ok |-> TRUE, path |-> PathJoin(platform, cwd.v, exe.v)] IN
  Resolved(GetProp(payload, KeyExe), GetProp(payload, KeyCwd))

\* Line 233: fs.existsSync(exePath)
ExistsSync(fileSet, exePath) == exePath \in fileSet

\* detectDebugger taking an .exe for a Windows program on any host.
detectDebuggerByName(platform, exePath) ==
  IF platform = "win32" THEN "cppvsdbg"
  ELSE IF Len(exePath) > 4 /\ SubSeq(exePath, Len(exePath) - 3, Len(exePath)) = T(".exe")
    THEN "cppvsdbg"
  ELSE IF platform = "darwin" THEN "lldb"
  ELSE "gdb"

\* Lines 351-371
detectDebugger(platform, exePath) ==
  IF platform = "win32" THEN "cppvsdbg"
  ELSE IF platform = "darwin" THEN "lldb"
  ELSE IF platform = "linux" THEN "gdb"
  ELSE "gdb"

\* BaseConfig with payload.exe, not exePath, as the program.
BaseConfigUnresolved(platform, exePath, debugger, payload) ==
  [name |-> T("Debug ") \o PathBasename(platform, exePath),
   type |-> debugger,
   request |-> "launch",
   program |-> GetProp(payload, KeyExe).v,
   args |-> GetProp(payload, KeyArgs),
   cwd |-> GetProp(payload, KeyCwd),
   stopAtEntry |-> FALSE]

\* Lines 248-256
BaseConfig(platform, exePath, debugger, payload) ==
  [name |-> T("Debug ") \o PathBasename(platform, exePath),
   type |-> debugger,
   request |-> "launch",
   program |-> exePath,
   args |-> GetProp(payload, KeyArgs),
   cwd |-> GetProp(payload, KeyCwd),
   stopAtEntry |-> FALSE]

\* PlatformSettings choosing by the name of the host alone.
PlatformSettingsNamedHosts(platform, debugger, payload) ==
  IF platform = "win32"
  THEN [env |-> [E2E_TEST_OUTPUT_DIR |-> GetProp(payload, KeyCwd)]]
  ELSE IF platform = "linux" \/ platform = "darwin"
  THEN [MIMode |-> debugger,
        setupCommands |-> <<>>,
        env |-> [E2E_TEST_OUTPUT_DIR |-> GetProp(payload, KeyCwd)]]
  ELSE [k \in {} |-> 0]

\* Lines 267-286: Object.assign(config, ...)
PlatformSettings(platform, debugger, payload) ==
  IF platform = "win32" /\ debugger = "cppvsdbg"
  THEN [env |-> [E2E_TEST_OUTPUT_DIR |-> GetProp(payload, KeyCwd)]]
  ELSE IF debugger = "gdb" \/ debugger = "lldb"
  THEN [MIMode |-> debugger,
        setupCommands |-> <<>>,
        env |-> [E2E_TEST_OUTPUT_DIR |-> GetProp(payload, KeyCwd)]]
  ELSE [k \in {} |-> 0]

BuildConfiguration(platform, exePath, debugger, payload) ==
  PlatformSettings(platform, debugger, payload)
    @@ BaseConfig(platform, exePath, debugger, payload)

\* The outcome of an invocation that has not run.
Blank ==
  [steps |-> <<>>, failure |-> "none", message |-> <<>>, payload |-> JUndefined,
   exePath |-> <<>>, debugger |-> "none", config |-> NoConfig, folder |-> "none"]

Failed(steps, kind, message) ==
  [Blank EXCEPT !.steps = steps, !.failure = kind, !.message = message]

\* FirstFolder taking the folder opened last.
LastFolder(folders) == IF folders = <<>> THEN "undefined" ELSE folders[Len(folders)]

\* Line 290: workspaceFolders[0]
FirstFolder(folders) == IF folders = <<>> THEN "undefined" ELSE folders[1]

\* Lines 241-299: SelectBackend, BuildConfiguration and the call of
\* vscode.debug.startDebugging(workspaceFolders[0], config).
FromSelectBackend(payload, exePath, folders, platform) ==
  LET Started(debugger) ==
        [Blank EXCEPT !.steps = SubSeq(StepOrder, 1, 8),
                      !.payload = payload,
                      !.exePath = exePath,
                      !.debugger = debugger,
                      !.config = BuildConfiguration(platform, exePath, debugger, payload),
                      !.folder = FirstFolder(folders)] IN
  Started(detectDebugger(platform, exePath))

\* FromVerifyExecutable without the fs.existsSync check.
FromVerifyExecutableUnchecked(payload, exePath, folders, fileSet, platform) ==
  FromSelectBackend(payload, exePath, folders, platform)

\* Lines 231-239: VerifyExecutable, then the rest.
FromVerifyExecutable(payload, exePath, folders, fileSet, platform) ==
  IF ~ExistsSync(fileSet, exePath) THEN
    [Failed(SubSeq(StepOrder, 1, 5), "ExecutableNotFound",
            T("Executable not found: ") \o exePath)
       EXCEPT !.payload = payload, !.exePath = exePath]
  ELSE FromSelectBackend(payload, exePath, folders, platform)

\* Lines 224-229: ResolvePath, then the rest.
FromResolvePath(payload, folders, fileSet, platform) ==
  LET Resolved(resolved) ==
        IF ~resolved.ok THEN
          [Failed(SubSeq(StepOrder, 1, 4), "InvalidArgType",
                  T("The \"path\" argument must be of type string"))
             EXCEPT !.payload = payload]
        ELSE FromVerifyExecutable(payload, resolved.path, folders, fileSet, platform) IN
  Resolved(ResolvePath(platform, payload))

\* Lines 216-222: Validate, then the rest.
FromValidate(payload, folders, fileSet, platform) ==
  IF PayloadInvalid(payload) THEN
    [Failed(SubSeq(StepOrder, 1, 3), "InvalidRequest",
            T("Invalid payload: missing exe, args, or cwd"))
       EXCEPT !.payload = payload]
  ELSE FromResolvePath(payload, folders, fileSet, platform)

\* Lines 190-191: new URLSearchParams(uri.query).get("payload")
ExtractPayload(query) == ParamsGet(URLSearchParams(query), KeyPayload)

\* FromDecode testing payload64 === null in place of !payload64.
FromDecodeNullOnly(query, folders, fileSet, platform) ==
  LET Decoded(decoded) ==
        IF ~decoded.ok THEN
          Failed(SubSeq(StepOrder, 1, 2), "MalformedPayload",
                 T("Failed to decode debug payload: ") \o decoded.error)
        ELSE FromValidate(decoded.payload, folders, fileSet, platform)
      Extracted(payload64) ==
        IF ~payload64.present THEN
          Failed(SubSeq(StepOrder, 1, 2), "MissingPayload",
                 T("Invalid debug URL: missing payload parameter"))
        ELSE Decoded(DecodePayload(payload64.value)) IN
  Extracted(ExtractPayload(query))

\* Lines 188-214: Decode, then the rest. !payload64 holds for null and for
\* the empty string.
FromDecode(query, folders, fileSet, platform) ==
  LET Decoded(decoded) ==
        IF ~decoded.ok THEN
          Failed(SubSeq(StepOrder, 1, 2), "MalformedPayload",
                 T("Failed to decode debug payload: ") \o decoded.error)
        ELSE FromValidate(decoded.payload, folders, fileSet, platform)
      Extracted(payload64) ==
        IF ~payload64.present \/ payload64.value = <<>> THEN
          Failed(SubSeq(StepOrder, 1, 2), "MissingPayload",
                 T("Invalid debug URL: missing payload parameter"))
        ELSE Decoded(DecodePayload(payload64.value)) IN
  Extracted(ExtractPayload(query))

\* HandleDebugUriSync looking for the payload parameter before the workspace.
HandleDebugUriSyncPayloadFirst(query, folders, fileSet, platform) ==
  IF ~ExtractPayload(query).present THEN
    Failed(SubSeq(StepOrder, 1, 2), "MissingPayload",
           T("Invalid debug URL: missing payload parameter"))
  ELSE IF folders = <<>> THEN
    Failed(SubSeq(StepOrder, 1, 1), "NoWorkspace",
           T("No workspace folder is open. Please open a workspace before launching the debugger."))
  ELSE FromDecode(query, folders, fileSet, platform)

\* HandleDebugUriSync testing !workspaceFolders without the length.
HandleDebugUriSyncAnyFolders(query, folders, fileSet, platform) ==
  FromDecode(query, folders, fileSet, platform)

\* Lines 170-299: everything handleDebugUri does before it awaits
\* vscode.debug.startDebugging. failure = "none" means the call was made,
\* with (folder, config).
HandleDebugUriSync(query, folders, fileSet, platform) ==
  IF folders = <<>> THEN
    Failed(SubSeq(StepOrder, 1, 1), "NoWorkspace",
           T("No workspace folder is open. Please open a workspace before launching the debugger."))
  ELSE FromDecode(query, folders, fileSet, platform)

(***************************************************************************)
(* The URLs delivered to the handler                                       *)
(***************************************************************************)

\* Launch requests given to the encoder.
ReqRelative == [exe |-> T("app"), args |-> <<T("x"), T("y")>>, cwd |-> T("/w")]

ReqAbsolute == [exe |-> T("/v/tool"), args |-> <<>>, cwd |-> T("/w")]

ReqAbsent == [exe |-> T("nope"), args |-> <<>>, cwd |-> T("/w")]

\* The query carrying a hand-written document as its payload.
QueryOf(document) == T("payload=") \o Base64Encode(Utf8Encode(document))

\* s with the character c inserted after position k.
InsertAt(s, k, c) == SubSeq(s, 1, k) \o <<c>> \o SubSeq(s, k + 1, Len(s))

NoRequest == [exe |-> <<>>, args |-> <<>>, cwd |-> <<>>]

\* Each URL has the path and query of the vscode.Uri and, for the
\* properties, what kind of URL it is and the request it was made from.
LaunchPath == T("/launch")

Url(kind, query, req) == [path |-> LaunchPath, query |-> query, kind |-> kind, req |-> req]

FixedUrls ==
  << Url("valid", EncodeQuery(ReqRelative), ReqRelative),
     Url("valid", EncodeQuery(ReqAbsolute), ReqAbsolute),
     Url("valid", EncodeQuery(ReqAbsent), ReqAbsent),
     Url("noParameter", T("x=1"), NoRequest),
     Url("notJson", QueryOf(T("{oops")), NoRequest),
     Url("emptyParameter", T("payload="), NoRequest),
     Url("notBase64", T("payload=!!!!"), NoRequest),
     Url("notBase64", InsertAt(EncodeQuery(ReqRelative), 20, 33), ReqRelative),
     Url("emptyExe", QueryOf(T("{\"exe\": \"\", \"args\": [], \"cwd\": \"/w\"}")), NoRequest),
     Url("noExe", QueryOf(T("{\"args\": [], \"cwd\": \"/w\"}")), NoRequest),
     Url("noArgs", QueryOf(T("{\"exe\": \"app.exe\", \"cwd\": \"/w\"}")), NoRequest),
     Url("nullArgs", QueryOf(T("{\"exe\": \"app.exe\", \"args\": null, \"cwd\": \"/w\"}")), NoRequest),
     Url("textArgs", QueryOf(T("{\"exe\": \"app.exe\", \"args\": \"x\", \"cwd\": \"/w\"}")), NoRequest),
     Url("noCwd", QueryOf(T("{\"exe\": \"app.exe\", \"args\": []}")), NoRequest),
     Url("emptyCwd", QueryOf(T("{\"exe\": \"app.exe\", \"args\": [], \"cwd\": \"\"}")), NoRequest),
     Url("numberExe", QueryOf(T("{\"exe\": 7, \"args\": [], \"cwd\": \"/w\"}")), NoRequest),
     [Url("valid", EncodeQuery(ReqRelative), ReqRelative) EXCEPT !.path = T("/other")],
     [Url("valid", EncodeQuery(ReqAbsolute), ReqAbsolute) EXCEPT !.path = <<>>],
     Url("numberArgs", QueryOf(T("{\"exe\": \"app\", \"args\": [1, null], \"cwd\": \"/w\"}")), NoRequest),
     Url("numberCwd", QueryOf(T("{\"exe\": \"/v/tool\", \"args\": [], \"cwd\": 7}")), NoRequest) >>

\* Executables and working directories of further encoded requests.
ExeSamples ==
  << T("app.exe"), T("/abs/app.exe"), T("bin/app"), T("./app"), T("../app"),
     T("C:\\bin\\app.exe"), T("\\bin\\app"), T("ab~"), T("a\"b") >>

CwdSamples == << T("/w"), T("/w/v"), T("/w/"), T("w"), T("C:\\w"), T("/") >>

ArgSamples == << <<>>, <<T("-v"), T("a b"), T("")>> >>

SampleUrls ==
  [k \in 1..(Len(ExeSamples) * Len(CwdSamples)) |->
     LET r == [exe |-> ExeSamples[((k - 1) \div Len(CwdSamples)) + 1],
               args |-> ArgSamples[(k % Len(ArgSamples)) + 1],
               cwd |-> CwdSamples[((k - 1) % Len(CwdSamples)) + 1]]
     IN Url("valid", EncodeQuery(r), r)]

Pool == FixedUrls \o SampleUrls

\* Lines 190-191 for every URL of the pool.
PoolPayload64 == [u \in DOMAIN Pool |-> ExtractPayload(Pool[u].query)]

\* Lines 204-206 for every URL of the pool: the text JSON.parse is given and
\* what it returns.
PoolParsed ==
  [u \in DOMAIN Pool |-> JSONParse(DecodeBase64Text(PoolPayload64[u].value))]

\* Lines 201-214 for every URL of the pool that carries a payload.
PoolDecoded ==
  [u \in DOMAIN Pool |->
     IF PoolPayload64[u].present /\ PoolPayload64[u].value # <<>>
     THEN DecodePayload(PoolPayload64[u].value)
     ELSE [ok |-> FALSE, error |-> <<>>, payload |-> JUndefined]]

\* The URLs delivered when several invocations run side by side.
ConcurrentUrls == {1, 2, 4}

Platforms == {"win32", "darwin", "linux", "freebsd"}

\* The files that exist: the targets of the requests above as each
\* platform names them, or none.
SomeFiles ==
  { T("/w/app"), T("\\w\\app"), T("/w/app.exe"), T("\\w\\app.exe"), T("/v/tool"),
    T("/abs/app.exe"),
    T("/w/bin/app"), T("\\w\\bin\\app"), T("C:\\bin\\app.exe"), T("/w/ab~") }

FileSets == { {}, SomeFiles }

FolderLists == { <<>>, <<"ws1">>, <<"ws2", "ws1">> }

(***************************************************************************)
(* The extension host: invocations of the URI handler                      *)
(***************************************************************************)

MaxInvocations == 2

Invocations == 1..MaxInvocations

\* The active debug session changes at most MaxEvents times.
MaxEvents == 3

\* Line 333: the delay given to setTimeout, in milliseconds.
GraceDelay == 500

\* Time passes in steps of TickMs milliseconds.
TickMs == 250

\* The session argument of a listener when there is no active session.
NoSession == 0

\* The active session when no listener has been told of it.
Unknown == MaxInvocations + 1

\* What may be thrown at handleUri by a rejected startDebugging.
Thrown == { T("debug adapter error"), T("spawn ENOENT") }

\* Releases of the extension: package.json's version, in order of release.
MaxVersion == 2

\* The activations of the extension in one run of the model.
MaxActivations == 2

\* The runs of the command code-dbg.installCli in one run of the model.
MaxCommands == 1

\* globalState.get of a key never written: undefined.
NoVersion == 0

FirstVersion == 1

VARIABLES
  platform,          \* process.platform
  files,             \* the paths for which fs.existsSync is true
  workspaceFolders,  \* vscode.workspace.workspaceFolders
  inv,               \* the local state of each handler invocation
  startCalls,        \* the calls of vscode.debug.startDebugging, in order
  listeners,         \* invocations whose onDidChangeActiveDebugSession listener is registered
  errorMessages,     \* vscode.window.showErrorMessage calls
  infoMessages,      \* vscode.window.showInformationMessage calls
  sessions,          \* invocations whose debug session exists
  activeSession,     \* the active debug session as the listeners were last told
  events,            \* the onDidChangeActiveDebugSession events fired so far
  timers,            \* the pending setTimeout callbacks of the listeners
  continueCalls,     \* the session.customRequest("continue") calls, in order
  encoder,           \* the run of the code-dbg command: its input, position and output
  globalState,       \* context.globalState: the persisted keys of the CLI install
  bundledVersion,    \* version of package.json in the installed extension
  appDirExists,      \* fs.existsSync of the app directory of the extension
  isTestMode,        \* VSCODE_DEBUGGER_TEST_MODE === "1" when the extension was activated
  activation,        \* the position of activate() and of installCliCommand
  handlerRegistered, \* the URI handler is registered with the host
  readyLines,        \* the "URL handler is registered and ready" lines logged
  installLog,        \* installs, prompts and messages of the CLI install, in order
  activations,       \* the activations of the extension so far
  commands           \* the runs of the command code-dbg.installCli by the user so far

vars ==
  <<platform, files, workspaceFolders, inv, startCalls, listeners,
    errorMessages, infoMessages, sessions, activeSession, events, timers,
    continueCalls, encoder, globalState, bundledVersion, appDirExists,
    isTestMode, activation, handlerRegistered, readyLines, installLog,
    activations, commands>>

\* What the URL handler has no access to: handleDebugUri is passed the URI
\* only, never the extension context.
extension ==
  <<globalState, bundledVersion, appDirExists, isTestMode, activation,
    handlerRegistered, readyLines, installLog, activations, commands>>

\* What the steps of the handler itself leave alone.
after == <<activeSession, events, timers, continueCalls>>

\* HandleDebugUriSync for every URL and environment of the model.
SyncOutcome ==
  [u \in DOMAIN Pool, folders \in FolderLists, fileSet \in FileSets, p \in Platforms |->
     HandleDebugUriSync(Pool[u].query, folders, fileSet, p)]

\* What an invocation keeps of the outcome: the variables its later code
\* reads (exePath, debugger_), with the steps it ran and how it failed.
Locals(r) ==
  [steps |-> r.steps, failure |-> r.failure, exePath |-> r.exePath,
   debugger |-> r.debugger]

\* The code-dbg command before it is run.
EncoderIdle ==
  [pc |-> "idle", env |-> [injection |-> FALSE, insiders |-> FALSE],
   options |-> [insiders |-> FALSE, urlOnly |-> FALSE, separator |-> FALSE],
   request |-> ReqAbsent, channel |-> "none", payload |-> <<>>,
   stdout |-> <<>>, stderr |-> <<>>, exit |-> 0, dispatched |-> <<>>]

Idle == Locals(Blank) @@ [pc |-> "idle", url |-> 0, foldersAtEntry |-> <<>>]

\* No URL handled yet.
InitHandler ==
  /\ platform \in Platforms
  /\ files \in FileSets
  /\ workspaceFolders \in FolderLists
  /\ inv = [i \in Invocations |-> Idle]
  /\ startCalls = <<>>
  /\ listeners = {}
  /\ errorMessages = <<>>
  /\ infoMessages = <<>>
  /\ sessions = {}
  /\ activeSession = Unknown
  /\ events = 0
  /\ timers = <<>>
  /\ continueCalls = <<>>
  /\ encoder = EncoderIdle

\* The extension activated, its CLI installed, no URL handled yet.
Init ==
  /\ globalState = [installedCliVersion |-> FirstVersion, cliInstallAttempted |-> "false"]
  /\ bundledVersion = FirstVersion
  /\ appDirExists = TRUE
  /\ isTestMode = FALSE
  /\ activation = [pc |-> "ready", by |-> "none"]
  /\ handlerRegistered = TRUE
  /\ readyLines = 1
  /\ installLog = <<"installed">>
  /\ activations = 1
  /\ commands = 0
  /\ InitHandler

\* ShowError without the message of the error.
ShowErrorWithoutCause(i, message) ==
  errorMessages' = Append(errorMessages, [inv |-> i, text |-> T("Debug launch failed")])

\* Lines 116-123: the catch of handleUri shows the error.
ShowError(i, message) ==
  errorMessages' = Append(errorMessages,
                          [inv |-> i, text |-> T("Debug launch failed: ") \o message])

\* The host delivers URL u: handleUri runs handleDebugUri up to its first
\* await, or to the exception that ends it.
HandleUri(i, u) ==
  /\ handlerRegistered
  /\ inv[i].pc = "idle"
  /\ \A j \in 1..(i - 1) : inv[j].pc # "idle"
  /\ LET entry == [url |-> u, foldersAtEntry |-> workspaceFolders]
         Ran(r) ==
           IF r.failure = "none"
           THEN /\ inv' = [inv EXCEPT ![i] = Locals(r) @@ entry @@ [pc |-> "awaitStart"]]
                /\ startCalls' =
                     Append(startCalls,
                            [inv |-> i, folder |-> r.folder, config |-> r.config])
                /\ UNCHANGED errorMessages
           ELSE /\ inv' = [inv EXCEPT ![i] = Locals(r) @@ entry @@ [pc |-> "failed"]]
                /\ ShowError(i, r.message)
                /\ UNCHANGED startCalls IN
     Ran(SyncOutcome[u, workspaceFolders, files, platform])
  /\ UNCHANGED <<extension, encoder, platform, files, workspaceFolders, listeners, infoMessages, sessions, after>>

\* Line 299: the debugging subsystem creates the session of the pending
\* startDebugging call, before the call resolves.
SessionCreated(i) ==
  /\ inv[i].pc = "awaitStart"
  /\ i \notin sessions
  /\ sessions' = sessions \cup {i}
  /\ UNCHANGED <<extension, encoder, platform, files, workspaceFolders, inv, startCalls, listeners,
                 errorMessages, infoMessages, after>>

\* Lines 299-348: startDebugging resolved true. The listener is registered
\* and the notification shown.
StartSucceeds(i) ==
  /\ inv[i].pc = "awaitStart"
  /\ inv' = [inv EXCEPT ![i].pc = "done", ![i].steps = StepOrder]
  /\ sessions' = sessions \cup {i}
  /\ listeners' = listeners \cup {i}
  /\ activeSession' = IF listeners = {} THEN Unknown ELSE activeSession
  /\ infoMessages' =
       Append(infoMessages,
              [inv |-> i,
               text |-> T("Debugging ") \o PathBasename(platform, inv[i].exePath)
                          \o T(" with ") \o T(inv[i].debugger)])
  /\ UNCHANGED <<extension, encoder, platform, files, workspaceFolders, startCalls, errorMessages,
                 events, timers, continueCalls>>

\* StartFails with the listener registered before the result is tested.
StartFailsAfterRegistering(i) ==
  /\ inv[i].pc = "awaitStart"
  /\ i \notin sessions
  /\ inv' = [inv EXCEPT ![i].pc = "failed", ![i].failure = "SessionStartFailed"]
  /\ listeners' = listeners \cup {i}
  /\ ShowError(i, T("Failed to start debugging session"))
  /\ UNCHANGED <<extension, encoder, platform, files, workspaceFolders, startCalls, infoMessages,
                 sessions, after>>

\* StartFails calling startDebugging again with the same configuration.
StartFailsRetrying(i) ==
  /\ inv[i].pc = "awaitStart"
  /\ i \notin sessions
  /\ startCalls' = startCalls \o SelectSeq(startCalls, LAMBDA c : c.inv = i)
  /\ UNCHANGED <<extension, encoder, platform, files, workspaceFolders, inv, listeners, errorMessages,
                 infoMessages, sessions, after>>

\* Lines 301-304: startDebugging resolved false.
StartFails(i) ==
  /\ inv[i].pc = "awaitStart"
  /\ i \notin sessions
  /\ inv' = [inv EXCEPT ![i].pc = "failed", ![i].failure = "SessionStartFailed"]
  /\ ShowError(i, T("Failed to start debugging session"))
  /\ UNCHANGED <<extension, encoder, platform, files, workspaceFolders, startCalls, listeners, infoMessages,
                 sessions, after>>

\* StartThrows with nothing catching the exception.
StartThrowsUnreported(i) ==
  /\ inv[i].pc = "awaitStart"
  /\ i \notin sessions
  /\ inv' = [inv EXCEPT ![i].pc = "failed", ![i].failure = "SessionStartThrew"]
  /\ UNCHANGED <<extension, encoder, platform, files, workspaceFolders, startCalls, listeners, infoMessages,
                 errorMessages, sessions, after>>

\* startDebugging rejected: the exception leaves handleDebugUri as it is
\* and the catch of handleUri (lines 119-123) shows its message.
StartThrows(i) ==
  /\ inv[i].pc = "awaitStart"
  /\ i \notin sessions
  /\ inv' = [inv EXCEPT ![i].pc = "failed", ![i].failure = "SessionStartThrew"]
  /\ \E message \in Thrown : ShowError(i, message)
  /\ UNCHANGED <<extension, encoder, platform, files, workspaceFolders, startCalls, listeners, infoMessages,
                 sessions, after>>

\* The user opens or closes workspace folders. The folders are read at
\* lines 177-186 and 290 only, so changes after the last invocation has
\* begun are left out.
WorkspaceFoldersChange ==
  /\ \E i \in Invocations : inv[i].pc = "idle"
  /\ \E f \in FolderLists : f # workspaceFolders /\ workspaceFolders' = f
  /\ UNCHANGED <<extension, encoder, platform, files, inv, startCalls, listeners, errorMessages, infoMessages,
                 sessions, after>>

\* session.configuration.program of the session started for invocation s.
ProgramOf(s) ==
  LET calls == SelectSeq(startCalls, LAMBDA c : c.inv = s) IN
  calls[1].config.program

\* Matches without the comparison of the program paths.
MatchesAnySession(i, s) == s # NoSession

\* Lines 311-315: the listener of invocation i is given session s.
Matches(i, s) == s # NoSession /\ ProgramOf(s) = inv[i].exePath

\* ActiveSessionChanged with listeners that unsubscribe at a session that is
\* not theirs.
ActiveSessionChangedUnsubscribing(s) ==
  /\ events < MaxEvents
  /\ listeners # {}
  /\ s \in sessions \cup {NoSession}
  /\ s # activeSession
  /\ activeSession' = s
  /\ events' = events + 1
  /\ timers' =
       timers \o SelectSeq([i \in Invocations |-> [by |-> i, session |-> s, elapsed |-> 0]],
                           LAMBDA t : t.by \in listeners /\ Matches(t.by, s))
  /\ listeners' = {i \in listeners : Matches(i, s)}
  /\ UNCHANGED <<extension, encoder, platform, files, workspaceFolders, inv, startCalls,
                 errorMessages, infoMessages, sessions, continueCalls>>

\* Lines 309-343: the active debug session changes to s, or to none; every
\* registered listener is called and the matching ones set their timer.
\* An event fired while no listener is registered calls nothing. The event
\* is fired when the active session becomes another one.
ActiveSessionChanged(s) ==
  /\ events < MaxEvents
  /\ listeners # {}
  /\ s \in sessions \cup {NoSession}
  /\ s # activeSession
  /\ activeSession' = s
  /\ events' = events + 1
  /\ timers' =
       timers \o SelectSeq([i \in Invocations |-> [by |-> i, session |-> s, elapsed |-> 0]],
                           LAMBDA t : t.by \in listeners /\ Matches(t.by, s))
  /\ UNCHANGED <<extension, encoder, platform, files, workspaceFolders, inv, startCalls, listeners,
                 errorMessages, infoMessages, sessions, continueCalls>>

\* TickMs milliseconds pass. elapsed is counted up to GraceDelay.
Tick ==
  /\ \E k \in DOMAIN timers : timers[k].elapsed < GraceDelay
  /\ timers' = [k \in DOMAIN timers |->
                  [timers[k] EXCEPT !.elapsed =
                     IF @ + TickMs > GraceDelay THEN GraceDelay ELSE @ + TickMs]]
  /\ UNCHANGED <<extension, encoder, platform, files, workspaceFolders, inv, startCalls, listeners,
                 errorMessages, infoMessages, sessions, activeSession, events, continueCalls>>

\* TimerFires with a delay of zero.
TimerFiresAtOnce ==
  /\ timers # <<>>
  /\ continueCalls' =
       Append(continueCalls,
              [by |-> Head(timers).by, session |-> Head(timers).session,
               waited |-> Head(timers).elapsed, outcome |-> "pending"])
  /\ timers' = Tail(timers)
  /\ UNCHANGED <<extension, encoder, platform, files, workspaceFolders, inv, startCalls, listeners,
                 errorMessages, infoMessages, sessions, activeSession, events>>

\* Lines 320-322: the timer callback runs, GraceDelay after it was set at
\* the earliest, and calls session.customRequest("continue", {}). Timers
\* of one delay run in the order they were set.
TimerFires ==
  /\ timers # <<>>
  /\ Head(timers).elapsed >= GraceDelay
  /\ continueCalls' =
       Append(continueCalls,
              [by |-> Head(timers).by, session |-> Head(timers).session,
               waited |-> Head(timers).elapsed, outcome |-> "pending"])
  /\ timers' = Tail(timers)
  /\ UNCHANGED <<extension, encoder, platform, files, workspaceFolders, inv, startCalls, listeners,
                 errorMessages, infoMessages, sessions, activeSession, events>>

\* ContinueSettles with the rejection shown to the user.
ContinueSettlesShowingError(k, ok) ==
  /\ k \in DOMAIN continueCalls
  /\ continueCalls[k].outcome = "pending"
  /\ continueCalls' =
       [continueCalls EXCEPT ![k].outcome = IF ok THEN "sent" ELSE "failed"]
  /\ listeners' = listeners \ {continueCalls[k].by}
  /\ errorMessages' =
       IF ok THEN errorMessages
       ELSE Append(errorMessages,
                   [inv |-> continueCalls[k].by, text |-> T("Failed to send continue command")])
  /\ UNCHANGED <<extension, encoder, platform, files, workspaceFolders, inv, startCalls,
                 infoMessages, sessions, activeSession, events, timers>>

\* ContinueSettles with the rejection callback only logging.
ContinueSettlesKeepingOnFailure(k, ok) ==
  /\ k \in DOMAIN continueCalls
  /\ continueCalls[k].outcome = "pending"
  /\ continueCalls' =
       [continueCalls EXCEPT ![k].outcome = IF ok THEN "sent" ELSE "failed"]
  /\ listeners' = IF ok THEN listeners \ {continueCalls[k].by} ELSE listeners
  /\ UNCHANGED <<extension, encoder, platform, files, workspaceFolders, inv, startCalls,
                 errorMessages, infoMessages, sessions, activeSession, events, timers>>

\* ContinueSettles noting a failed continue request in the persisted state.
ContinueSettlesCaching(k, ok) ==
  /\ k \in DOMAIN continueCalls
  /\ continueCalls[k].outcome = "pending"
  /\ continueCalls' =
       [continueCalls EXCEPT ![k].outcome = IF ok THEN "sent" ELSE "failed"]
  /\ listeners' = listeners \ {continueCalls[k].by}
  /\ globalState' = IF ok THEN globalState
                    ELSE [globalState EXCEPT !.cliInstallAttempted = "continueFailed"]
  /\ UNCHANGED <<bundledVersion, appDirExists, isTestMode, activation,
                 handlerRegistered, readyLines, installLog, activations, commands,
                 encoder, platform, files, workspaceFolders, inv, startCalls,
                 errorMessages, infoMessages, sessions, activeSession, events, timers>>

\* Lines 323-331: the continue request settles; both callbacks dispose of
\* the listener and the rejection is logged.
ContinueSettles(k, ok) ==
  /\ k \in DOMAIN continueCalls
  /\ continueCalls[k].outcome = "pending"
  /\ continueCalls' =
       [continueCalls EXCEPT ![k].outcome = IF ok THEN "sent" ELSE "failed"]
  /\ listeners' = listeners \ {continueCalls[k].by}
  /\ UNCHANGED <<extension, encoder, platform, files, workspaceFolders, inv, startCalls,
                 errorMessages, infoMessages, sessions, activeSession, events, timers>>

\* Lines 325 and 330: the calls of disposable.dispose() made for invocation
\* i, one by each continue request of its listener that has settled.
DisposeCalls(i) ==
  Cardinality({k \in DOMAIN continueCalls :
                 continueCalls[k].by = i /\ continueCalls[k].outcome # "pending"})

Next ==
  \/ \E i \in Invocations, u \in ConcurrentUrls : HandleUri(i, u)
  \/ \E i \in Invocations : SessionCreated(i)
  \/ \E i \in Invocations : StartSucceeds(i)
  \/ \E i \in Invocations : StartFails(i)
  \/ \E i \in Invocations : StartThrows(i)
  \/ \E s \in Invocations \cup {NoSession} : ActiveSessionChanged(s)
  \/ Tick
  \/ TimerFires
  \/ \E k \in 1..(MaxEvents * MaxInvocations), ok \in BOOLEAN : ContinueSettles(k, ok)
  \/ WorkspaceFoldersChange

\* Invocations side by side, each with one of a few URLs.
InitConcurrent == Init /\ files = SomeFiles /\ platform \in {"win32", "linux"}

Spec == InitConcurrent /\ [][Next]_vars

\* The timers run and the continue requests settle.
Fairness ==
  /\ WF_vars(Tick)
  /\ WF_vars(TimerFires)
  /\ WF_vars(\E k \in 1..(MaxEvents * MaxInvocations), ok \in BOOLEAN : ContinueSettles(k, ok))

FairSpec == InitConcurrent /\ [][Next]_vars /\ Fairness

(***************************************************************************)
(* The run of the Request Encoder (code-dbg [OPTIONS] -- <executable>      *)
(* [arguments...]), modelled from the specification and the README: the    *)
(* environment is inspected, the command line is parsed, the payload is    *)
(* encoded, the URL is printed and, unless --url-only is given, handed to  *)
(* the host application with --open-url.                                   *)
(***************************************************************************)

\* The environment: whether VSCODE_INJECTION is set, and whether PATH or
\* the VSCODE_* variables name VS Code Insiders.
EncoderEnvs == [injection : BOOLEAN, insiders : BOOLEAN]

\* --insiders, --url-only and the "--" separator.
EncoderOptions == [insiders : BOOLEAN, urlOnly : BOOLEAN, separator : BOOLEAN]

\* The executable (possibly empty), its arguments and --cwd.
EncoderRequests ==
  { ReqRelative, ReqAbsolute,
    [ReqRelative EXCEPT !.exe = <<>>], [ReqAbsolute EXCEPT !.exe = <<>>] }

\* Auto-detection that takes the stable channel when nothing is detected.
DetectChannelDefaultStable(env) ==
  IF env.insiders THEN "preview" ELSE "stable"

\* Auto-detection: outside a terminal of the host application no channel,
\* else the preview channel when the environment names it, else the stable.
DetectChannel(env) ==
  IF ~env.injection THEN "none"
  ELSE IF env.insiders THEN "preview"
  ELSE "stable"

\* <scheme> of the channel.
SchemeOf(channel) == IF channel = "preview" THEN "vscode-insiders" ELSE "vscode"

\* <scheme>://<host-app-id>/launch?payload=<b64>
EncodeUrl(channel, payload) ==
  [scheme |-> SchemeOf(channel), authority |-> "bradphelan.code-dbg",
   path |-> LaunchPath, query |-> T("payload=") \o payload]

\* A validation failure: a message on standard error, a non-zero exit.
EncoderFail(failure) ==
  encoder' = [encoder EXCEPT !.pc = "failed", !.exit = 1,
                             !.stderr = Append(@, failure)]

\* The command is run.
RunEncoder(env, options, request) ==
  /\ encoder.pc = "idle"
  /\ encoder' = [encoder EXCEPT !.pc = "detect", !.env = env,
                                !.options = options, !.request = request]
  /\ UNCHANGED <<extension, platform, files, workspaceFolders, inv, startCalls, listeners,
                 errorMessages, infoMessages, sessions, after>>

\* The channel: --insiders names it, else the environment does. The
\* documents differ on --insiders outside a terminal of the host
\* application (the override decides, or the check of VSCODE_INJECTION
\* comes first): both are allowed.
EncoderDetect ==
  /\ encoder.pc = "detect"
  /\ \/ /\ encoder.options.insiders
        /\ encoder' = [encoder EXCEPT !.pc = "parse", !.channel = "preview"]
     \/ /\ encoder.options.insiders
        /\ ~encoder.env.injection
        /\ EncoderFail("ChannelNotDetected")
     \/ /\ ~encoder.options.insiders
        /\ LET Use(channel) ==
               IF channel = "none" THEN EncoderFail("ChannelNotDetected")
               ELSE encoder' = [encoder EXCEPT !.pc = "parse", !.channel = channel]
           IN Use(DetectChannel(encoder.env))
  /\ UNCHANGED <<extension, platform, files, workspaceFolders, inv, startCalls, listeners,
                 errorMessages, infoMessages, sessions, after>>

\* The command line: the separator is required, the executable not empty.
EncoderParse ==
  /\ encoder.pc = "parse"
  /\ IF ~encoder.options.separator THEN EncoderFail("MissingSeparator")
     ELSE IF encoder.request.exe = <<>> THEN EncoderFail("EmptyExecutable")
     ELSE encoder' = [encoder EXCEPT !.pc = "encode"]
  /\ UNCHANGED <<extension, platform, files, workspaceFolders, inv, startCalls, listeners,
                 errorMessages, infoMessages, sessions, after>>

\* encode(request), and the URL on standard output.
EncoderEncode ==
  /\ encoder.pc = "encode"
  /\ LET Use(payload) ==
         encoder' = [encoder EXCEPT !.pc = "dispatch", !.payload = payload,
                       !.stdout = Append(@, EncodeUrl(encoder.channel, payload))]
     IN Use(EncodePayload(encoder.request))
  /\ UNCHANGED <<extension, platform, files, workspaceFolders, inv, startCalls, listeners,
                 errorMessages, infoMessages, sessions, after>>

\* dispatch(url) whatever the options say.
EncoderDispatchAlways ==
  /\ encoder.pc = "dispatch"
  /\ encoder' = [encoder EXCEPT !.pc = "done",
                    !.dispatched = Append(@, [entry |-> encoder.channel,
                                              openUrl |-> encoder.stdout[1]])]
  /\ UNCHANGED <<extension, platform, files, workspaceFolders, inv, startCalls, listeners,
                 errorMessages, infoMessages, sessions, after>>

\* dispatch(url): <entry point> --open-url <url>, unless --url-only.
EncoderDispatch ==
  /\ encoder.pc = "dispatch"
  /\ IF encoder.options.urlOnly
     THEN encoder' = [encoder EXCEPT !.pc = "done"]
     ELSE encoder' = [encoder EXCEPT !.pc = "done",
                        !.dispatched = Append(@, [entry |-> encoder.channel,
                                                  openUrl |-> encoder.stdout[1]])]
  /\ UNCHANGED <<extension, platform, files, workspaceFolders, inv, startCalls, listeners,
                 errorMessages, infoMessages, sessions, after>>

NextEncoder ==
  \/ \E env \in EncoderEnvs, options \in EncoderOptions, request \in EncoderRequests :
       RunEncoder(env, options, request)
  \/ EncoderDetect
  \/ EncoderParse
  \/ EncoderEncode
  \/ EncoderDispatch

\* One run of the command with every environment and command line.
EncoderSpec == InitConcurrent /\ [][NextEncoder]_vars

(***************************************************************************)
(* activate, autoInstallOrUpgradeCli, installCli and installCliCommand.    *)
(* A step runs from one await that waits for the host or for a process to  *)
(* the next. installCli tests the app directory before its only await (the *)
(* PowerShell process that adds the directory to the user PATH on win32),  *)
(* so a failed install, and an install on another platform, is over in the *)
(* step that begins it. globalState.update takes effect when it is called. *)
(***************************************************************************)

\* What activation and the install leave alone.
handler ==
  <<encoder, platform, files, workspaceFolders, inv, startCalls, listeners,
    errorMessages, infoMessages, sessions, after>>

\* The assignments of one step of the activation.
Step(state, pc, by, lines, ready) ==
  /\ globalState' = state
  /\ activation' = [pc |-> pc, by |-> by]
  /\ installLog' = lines
  /\ readyLines' = ready

\* Lines 160-165: autoInstallOrUpgradeCli has returned to activate.
Finish(state, lines) == Step(state, "ready", "none", lines, readyLines + 1)

\* Lines 427-441, 456-458: installCli failed; the prompt, unless one was
\* shown before or the extension runs under test.
InstallFailed(testMode) ==
  IF globalState.cliInstallAttempted # "true" /\ ~testMode
  THEN Step(globalState, "errorPrompt", "none",
            installLog \o <<"failed", "prompt">>, readyLines)
  ELSE Finish(globalState, Append(installLog, "failed"))

\* Lines 396-400: installCli succeeded; the version is saved.
InstallSucceeded ==
  Step([globalState EXCEPT !.installedCliVersion = bundledVersion],
       "versionSaved", "none", Append(installLog, "installed"), readyLines)

\* Line 388: installedVersion !== bundledVersion
NeedsInstall(installedVersion, bundled) == installedVersion # bundled

\* activate registering nothing with the host.
ActivateWithoutHandler(testMode) ==
  /\ activation.pc = "inactive"
  /\ activations < MaxActivations
  /\ activations' = activations + 1
  /\ isTestMode' = testMode
  /\ handlerRegistered' = FALSE
  /\ IF ~NeedsInstall(globalState.installedCliVersion, bundledVersion)
     THEN Finish(globalState, Append(installLog, "upToDate"))
     ELSE IF ~appDirExists THEN InstallFailed(testMode)
     ELSE IF platform = "win32"
     THEN Step(globalState, "installing", "none", installLog, readyLines)
     ELSE InstallSucceeded
  /\ UNCHANGED <<bundledVersion, appDirExists, commands, handler>>

\* Lines 65-158, 376-394: the host activates the extension; the handler is
\* registered (107), then autoInstallOrUpgradeCli is called and awaited.
Activate(testMode) ==
  /\ activation.pc = "inactive"
  /\ activations < MaxActivations
  /\ activations' = activations + 1
  /\ isTestMode' = testMode
  /\ handlerRegistered' = TRUE
  /\ IF ~NeedsInstall(globalState.installedCliVersion, bundledVersion)
     THEN Finish(globalState, Append(installLog, "upToDate"))
     ELSE IF ~appDirExists THEN InstallFailed(testMode)
     ELSE IF platform = "win32"
     THEN Step(globalState, "installing", "none", installLog, readyLines)
     ELSE InstallSucceeded
  /\ UNCHANGED <<bundledVersion, appDirExists, commands, handler>>

\* Line 394: the PowerShell process of installCli has ended.
InstallCliDone ==
  /\ activation.pc = "installing"
  /\ InstallSucceeded
  /\ UNCHANGED <<bundledVersion, appDirExists, isTestMode, handlerRegistered,
                 activations, commands, handler>>

\* Line 401: the flag is cleared.
SaveAttempted ==
  /\ activation.pc = "versionSaved"
  /\ Step([globalState EXCEPT !.cliInstallAttempted = "false"], "flagSaved", "none",
          installLog, readyLines)
  /\ UNCHANGED <<bundledVersion, appDirExists, isTestMode, handlerRegistered,
                 activations, commands, handler>>

\* Lines 403-416: the notification of the install, unless under test.
Notify ==
  /\ activation.pc = "flagSaved"
  /\ IF isTestMode THEN Finish(globalState, installLog)
     ELSE Step(globalState, "infoPrompt", "none", Append(installLog, "notified"),
               readyLines)
  /\ UNCHANGED <<bundledVersion, appDirExists, isTestMode, handlerRegistered,
                 activations, commands, handler>>

\* Lines 418-426: the notification is answered or dismissed.
InfoAnswered ==
  /\ activation.pc = "infoPrompt"
  /\ Finish(globalState, installLog)
  /\ UNCHANGED <<bundledVersion, appDirExists, isTestMode, handlerRegistered,
                 activations, commands, handler>>

\* Lines 584-601: installCliCommand has its result.
CommandInstalled(by) ==
  Step([globalState EXCEPT !.installedCliVersion = bundledVersion],
       "commandVersionSaved", by, Append(installLog, "installed"), readyLines)

\* Lines 578-607: installCliCommand up to the await of installCli, or to
\* its error message when the install fails at once.
CommandStart(by) ==
  IF ~appDirExists
  THEN Step(globalState, "commandDone", by, installLog \o <<"failed", "message">>,
            readyLines)
  ELSE IF platform = "win32"
  THEN Step(globalState, "commandInstalling", by, installLog, readyLines)
  ELSE CommandInstalled(by)

PromptActions == {"Retry", "Manual Instructions", "undefined"}

\* Lines 442-455: the prompt is answered or dismissed.
ErrorAnswered(action) ==
  /\ activation.pc = "errorPrompt"
  /\ IF action = "Retry" THEN CommandStart("retry")
     ELSE Step([globalState EXCEPT !.cliInstallAttempted = "true"], "attemptSaved",
               "none", installLog, readyLines)
  /\ UNCHANGED <<bundledVersion, appDirExists, isTestMode, handlerRegistered,
                 activations, commands, handler>>

\* Line 455 is past; autoInstallOrUpgradeCli returns.
AttemptSaved ==
  /\ activation.pc = "attemptSaved"
  /\ Finish(globalState, installLog)
  /\ UNCHANGED <<bundledVersion, appDirExists, isTestMode, handlerRegistered,
                 activations, commands, handler>>

\* Lines 140-145: the user runs the command code-dbg.installCli.
InstallCliCommand ==
  /\ activation.pc = "ready"
  /\ commands < MaxCommands
  /\ commands' = commands + 1
  /\ CommandStart("user")
  /\ UNCHANGED <<bundledVersion, appDirExists, isTestMode, handlerRegistered,
                 activations, handler>>

\* Line 582: the PowerShell process of installCli has ended.
CommandInstallDone ==
  /\ activation.pc = "commandInstalling"
  /\ CommandInstalled(activation.by)
  /\ UNCHANGED <<bundledVersion, appDirExists, isTestMode, handlerRegistered,
                 activations, commands, handler>>

\* Lines 596-600: the flag is cleared and the user told.
CommandSaveAttempted ==
  /\ activation.pc = "commandVersionSaved"
  /\ Step([globalState EXCEPT !.cliInstallAttempted = "false"], "commandDone",
          activation.by, installLog, readyLines)
  /\ UNCHANGED <<bundledVersion, appDirExists, isTestMode, handlerRegistered,
                 activations, commands, handler>>

\* Lines 443, 455 and 144: withProgress is over. After "Retry" the prompt's
\* code goes on and sets the flag.
CommandReturns ==
  /\ activation.pc = "commandDone"
  /\ IF activation.by = "retry"
     THEN Step([globalState EXCEPT !.cliInstallAttempted = "true"], "attemptSaved",
               "none", installLog, readyLines)
     ELSE Step(globalState, "ready", "none", installLog, readyLines)
  /\ UNCHANGED <<bundledVersion, appDirExists, isTestMode, handlerRegistered,
                 activations, commands, handler>>

\* The window is closed, between two launches: the extension host ends
\* with whatever activate was waiting for, the subscriptions and the
\* listeners of the process are gone, globalState stays.
Deactivate ==
  /\ activation.pc # "inactive"
  /\ \A i \in Invocations : inv[i].pc # "awaitStart"
  /\ timers = <<>>
  /\ \A k \in DOMAIN continueCalls : continueCalls[k].outcome # "pending"
  /\ activation' = [pc |-> "inactive", by |-> "none"]
  /\ handlerRegistered' = FALSE
  /\ listeners' = {}
  /\ UNCHANGED <<globalState, bundledVersion, appDirExists, isTestMode, readyLines,
                 installLog, activations, commands, encoder, platform, files, workspaceFolders,
                 inv, startCalls, errorMessages, infoMessages, sessions, after>>

\* A later release of the extension is installed while the window is closed.
UpgradeExtension ==
  /\ activation.pc = "inactive"
  /\ bundledVersion < MaxVersion
  /\ bundledVersion' = bundledVersion + 1
  /\ UNCHANGED <<globalState, appDirExists, isTestMode, activation, handlerRegistered,
                 readyLines, installLog, activations, commands, handler>>

\* The app directory of the extension appears or disappears.
AppDirChanges ==
  /\ appDirExists' = ~appDirExists
  /\ UNCHANGED <<globalState, bundledVersion, isTestMode, activation,
                 handlerRegistered, readyLines, installLog, activations, commands, handler>>

\* The URLs sent to an extension that is being activated. One launch, and
\* one event of its session, are followed through the activations.
ActivationUrls == {1, 4}

NextActivation ==
  \/ \E testMode \in BOOLEAN : Activate(testMode)
  \/ InstallCliDone
  \/ SaveAttempted
  \/ Notify
  \/ InfoAnswered
  \/ \E action \in PromptActions : ErrorAnswered(action)
  \/ AttemptSaved
  \/ InstallCliCommand
  \/ CommandInstallDone
  \/ CommandSaveAttempted
  \/ CommandReturns
  \/ Deactivate
  \/ UpgradeExtension
  \/ AppDirChanges
  \/ \E u \in ActivationUrls : HandleUri(1, u)
  \/ StartSucceeds(1)
  \/ StartFails(1)
  \/ events = 0 /\ ActiveSessionChanged(1)
  \/ Tick
  \/ TimerFires
  \/ \E ok \in BOOLEAN : ContinueSettles(1, ok)

\* The extension just installed, never activated.
InitActivation ==
  /\ globalState = [installedCliVersion |-> NoVersion, cliInstallAttempted |-> "undefined"]
  /\ bundledVersion = FirstVersion
  /\ appDirExists \in BOOLEAN
  /\ isTestMode = FALSE
  /\ activation = [pc |-> "inactive", by |-> "none"]
  /\ handlerRegistered = FALSE
  /\ readyLines = 0
  /\ installLog = <<>>
  /\ activations = 0
  /\ commands = 0
  /\ InitHandler
  /\ files = SomeFiles
  /\ workspaceFolders = <<"ws1">>
  /\ platform \in {"win32", "linux"}

ActivationSpec == InitActivation /\ [][NextActivation]_vars

NextHandler ==
  \/ \E u \in DOMAIN Pool : HandleUri(1, u)
  \/ StartSucceeds(1)
  \/ StartFails(1)
  \/ StartThrows(1)
  \/ WorkspaceFoldersChange

\* One invocation with every URL of the pool in every environment.
HandlerSpec == Init /\ [][NextHandler]_vars

(***************************************************************************)
(* Properties                                                              *)
(***************************************************************************)

Entered(i) == inv[i].pc # "idle"

\* The invocation found a workspace folder when it began.
WithWorkspace(i) == Entered(i) /\ inv[i].foldersAtEntry # <<>>

UrlOf(i) == Pool[inv[i].url]

CallsOf(i) == SelectSeq(startCalls, LAMBDA c : c.inv = i)

\* A request r as the JSON values of its fields.
ArgsJson(r) == JArray([k \in 1..Len(r.args) |-> JString(r.args[k])])

SameRequest(payload, r) ==
  /\ payload.t = "object"
  /\ GetProp(payload, KeyExe) = JString(r.exe)
  /\ GetProp(payload, KeyArgs) = ArgsJson(r)
  /\ GetProp(payload, KeyCwd) = JString(r.cwd)

\* C1: every valid launch request (non-empty exe, string args, non-empty
\* cwd) that the encoder put in a URL is obtained again by the handler's
\* Decode step, field for field and with the arguments in their order.
C1_RoundTrip ==
  \A i \in Invocations :
    (WithWorkspace(i) /\ UrlOf(i).kind = "valid")
      => /\ PoolDecoded[inv[i].url].ok
         /\ SameRequest(PoolDecoded[inv[i].url].payload, UrlOf(i).req)
         /\ inv[i].failure \notin {"MissingPayload", "MalformedPayload"}

\* The steps whose failure condition holds for the URL and the environment
\* of invocation i, by their position in StepOrder.
FailingSteps(i) ==
  LET u == inv[i].url
      p == PoolPayload64[u]
      d == PoolDecoded[u]
      resolved == ResolvePath(platform, d.payload) IN
  {k \in 1..5 :
     \/ k = 1 /\ inv[i].foldersAtEntry = <<>>
     \/ k = 2 /\ (~p.present \/ p.value = <<>> \/ ~d.ok)
     \/ k = 3 /\ PayloadInvalid(d.payload)
     \/ k = 4 /\ ~resolved.ok
     \/ k = 5 /\ ~ExistsSync(files, resolved.path)}

\* The step at which each failure kind is raised.
StepOfFailure(kind) ==
  CASE kind = "NoWorkspace" -> 1
    [] kind \in {"MissingPayload", "MalformedPayload"} -> 2
    [] kind = "InvalidRequest" -> 3
    [] kind = "InvalidArgType" -> 4
    [] kind = "ExecutableNotFound" -> 5
    [] kind \in {"SessionStartFailed", "SessionStartThrew"} -> 8
    [] OTHER -> 0

EarlyFailures ==
  {"NoWorkspace", "MissingPayload", "MalformedPayload", "InvalidRequest",
   "InvalidArgType", "ExecutableNotFound"}

ErrorsOf(i) == SelectSeq(errorMessages, LAMBDA m : m.inv = i)

\* C2: the steps of an invocation are a prefix of WorkspaceCheck, Decode,
\* Validate, ResolvePath, VerifyExecutable, SelectBackend,
\* BuildConfiguration, StartSession, AutoContinue; a failed invocation
\* stopped at the step of its failure, which is the earliest step whose
\* failure condition holds, and reported that one failure.
C2_StepsInOrder ==
  \A i \in Invocations :
    Entered(i) =>
      /\ inv[i].steps = SubSeq(StepOrder, 1, Len(inv[i].steps))
      /\ inv[i].pc = "failed" =>
            /\ Len(inv[i].steps) = StepOfFailure(inv[i].failure)
            /\ Len(ErrorsOf(i)) = 1
      /\ FailingSteps(i) # {} =>
            /\ inv[i].pc = "failed"
            /\ \A k \in FailingSteps(i) : Len(inv[i].steps) <= k
            /\ Len(inv[i].steps) \in FailingSteps(i)
      /\ FailingSteps(i) = {} =>
            /\ Len(inv[i].steps) >= 8
            /\ inv[i].failure \notin EarlyFailures
      /\ inv[i].pc = "awaitStart" => Len(inv[i].steps) = 8 /\ ErrorsOf(i) = <<>>
      /\ (inv[i].pc = "done" \/ i \in listeners) <=> inv[i].steps = StepOrder

\* No workspace and no payload parameter: NoWorkspace was reported.
C2_Witness ==
  \E i \in Invocations :
    /\ inv[i].pc = "failed"
    /\ {1, 2} \subseteq FailingSteps(i)
    /\ UrlOf(i).kind = "noParameter"
    /\ inv[i].failure = "NoWorkspace"
    /\ inv[i].steps = <<"WorkspaceCheck">>

\* C3: an invocation that failed in one of the steps before StartSession
\* made no call of startDebugging, and an invocation whose resolved path
\* is not a file failed with ExecutableNotFound and made no call.
C3_NoStartAfterFailure ==
  \A i \in Invocations :
    /\ inv[i].failure \in EarlyFailures => CallsOf(i) = <<>>
    /\ (Len(inv[i].steps) >= 5 /\ inv[i].exePath \notin files)
         => inv[i].failure = "ExecutableNotFound" /\ CallsOf(i) = <<>>

\* A request for a file that is not there was refused.
C3_Witness ==
  \E i \in Invocations :
    /\ Entered(i) /\ UrlOf(i).kind = "valid"
    /\ inv[i].exePath # <<>> /\ inv[i].exePath \notin files
    /\ inv[i].failure = "ExecutableNotFound"
    /\ startCalls = <<>>

\* C4: an invocation that began with no workspace folder open failed with
\* NoWorkspace whatever its URL, ran no step after WorkspaceCheck and made
\* no call of startDebugging.
C4_NoWorkspace ==
  \A i \in Invocations :
    (Entered(i) /\ inv[i].foldersAtEntry = <<>>)
      => /\ inv[i].pc = "failed"
         /\ inv[i].failure = "NoWorkspace"
         /\ inv[i].steps = <<"WorkspaceCheck">>
         /\ CallsOf(i) = <<>>

\* A valid URL delivered with no workspace open.
C4_Witness ==
  \E i \in Invocations :
    /\ Entered(i) /\ inv[i].foldersAtEntry = <<>>
    /\ UrlOf(i).kind = "valid" /\ PoolDecoded[inv[i].url].ok
    /\ inv[i].failure = "NoWorkspace"

IsStandardBase64(text) ==
  LET n == Len(text)
      IsAlphabet(c) ==
        \/ c >= 65 /\ c <= 90
        \/ c >= 97 /\ c <= 122
        \/ c >= 48 /\ c <= 57
        \/ c = 43 \/ c = 47 IN
  /\ n % 4 = 0
  /\ \A k \in 1..n :
       \/ IsAlphabet(text[k])
       \/ text[k] = 61 /\ k >= n - 1 /\ text[n] = 61

\* C6: with a workspace open, a payload that is no valid base64, or whose
\* decoded text is no JSON document, fails with MalformedPayload in the
\* Decode step and no later step is run.
C6_MalformedPayload ==
  \A i \in Invocations :
    (/\ WithWorkspace(i)
     /\ PoolPayload64[inv[i].url].present
     /\ PoolPayload64[inv[i].url].value # <<>>
     /\ \/ ~IsStandardBase64(PoolPayload64[inv[i].url].value)
        \/ ~PoolParsed[inv[i].url].ok)
      => /\ inv[i].failure = "MalformedPayload"
         /\ inv[i].steps = <<"WorkspaceCheck", "Decode">>
         /\ CallsOf(i) = <<>>

Lacks(val) == val.t \in {"undefined", "null"} \/ val = JString(<<>>)

\* C7: a payload that decodes to a JSON object without a non-empty exe,
\* without args as an array or without a non-empty cwd fails with
\* InvalidRequest.
C7_InvalidRequest ==
  \A i \in Invocations :
    (/\ WithWorkspace(i)
     /\ PoolParsed[inv[i].url].ok
     /\ PoolParsed[inv[i].url].v.t = "object"
     /\ LET payload == PoolParsed[inv[i].url].v IN
          \/ Lacks(GetProp(payload, KeyExe))
          \/ GetProp(payload, KeyArgs).t # "array"
          \/ Lacks(GetProp(payload, KeyCwd)))
      => inv[i].failure = "InvalidRequest"

\* Neither "." nor ".." nor an empty segment, no separator at the end and,
\* on win32, no "/".
PlainPath(p, path) ==
  /\ path # <<>>
  /\ ~IsPathSeparator(p, path[Len(path)])
  /\ \A k \in 1..Len(path) : IsWin(platform) => path[k] # 47
  /\ \A k \in 2..Len(Segments(p, path)) :
       Segments(p, path)[k] \notin {<<>>, <<46>>, DotDot}
  /\ Segments(p, path)[1] \notin {<<46>>, DotDot}

\* The names a path goes through, "." dropped and ".." taken back.
PathNames(p, path, rooted) ==
  NormalizeSegments(Segments(p, path), ~rooted, <<>>)

\* C8 as stated: the resolved path of a validated request is exe itself
\* when exe is absolute and cwd joined with exe when it is relative, which
\* for "app.exe" in "/w" is "/w/app.exe".
C8_AsStated ==
  \A i \in Invocations :
    (Entered(i) /\ Len(inv[i].steps) >= 5) =>
      LET payload == PoolDecoded[inv[i].url].payload
          exe == GetProp(payload, KeyExe).v
          cwd == GetProp(payload, KeyCwd).v IN
      IF PathIsAbsolute(platform, exe) THEN inv[i].exePath = exe
      ELSE (exe = T("app.exe") /\ cwd = T("/w")) => inv[i].exePath = T("/w/app.exe")

\* C8: the resolved path of a validated request is exe itself when exe is
\* absolute, whatever cwd is, and cwd joined with exe by the rules of the
\* host when exe is relative: cwd, the separator of the host and exe when
\* both are plain paths, always the names of cwd followed by those of exe;
\* for "app.exe" in "/w" it is "/w/app.exe", and "\w\app.exe" on win32.
C8_ResolvedPath ==
  \A i \in Invocations :
    (Entered(i) /\ Len(inv[i].steps) >= 5) =>
      LET payload == PoolDecoded[inv[i].url].payload
          exe == GetProp(payload, KeyExe).v
          cwd == GetProp(payload, KeyCwd).v
          joined == cwd \o <<Separator(platform)>> \o exe
          rooted == IsPathSeparator(platform, cwd[1]) IN
      IF PathIsAbsolute(platform, exe) THEN inv[i].exePath = exe
      ELSE /\ (PlainPath(platform, cwd) /\ PlainPath(platform, exe))
                => inv[i].exePath = joined
           /\ (exe = T("app.exe") /\ cwd = T("/w"))
                => inv[i].exePath = IF IsWin(platform) THEN T("\\w\\app.exe")
                                    ELSE T("/w/app.exe")
           /\ PathNames(platform, inv[i].exePath, rooted)
                = PathNames(platform, joined, rooted)
           /\ IsPathSeparator(platform, inv[i].exePath[1]) = rooted

\* app.exe in /w was resolved on a win32 host and the session started.
C8_Witness ==
  \E i \in Invocations :
    /\ Entered(i) /\ Len(inv[i].steps) >= 8
    /\ UrlOf(i).kind = "valid"
    /\ UrlOf(i).req.exe = T("app.exe") /\ UrlOf(i).req.cwd = T("/w")
    /\ platform = "win32"
    /\ inv[i].exePath = T("\\w\\app.exe")

BackendOf(p) ==
  CASE p = "win32" -> "cppvsdbg"
    [] p = "darwin" -> "lldb"
    [] p = "linux" -> "gdb"
    [] OTHER -> "gdb"

LastName(p, path) ==
  LET seps == {k \in 1..Len(path) : IsPathSeparator(p, path[k])}
      last == IF seps = {} THEN 0 ELSE CHOOSE k \in seps : \A j \in seps : j <= k IN
  SubSeq(path, last + 1, Len(path))

\* C10: every configuration given to startDebugging has request "launch",
\* the resolved path as program, the arguments of the request in their
\* order, the working directory of the request, stopAtEntry false and the
\* name "Debug " followed by the base name of the resolved path.
C10_Configuration ==
  \A k \in 1..Len(startCalls) :
    LET c == startCalls[k].config
        i == startCalls[k].inv
        payload == PoolDecoded[inv[i].url].payload IN
    /\ c.request = "launch"
    /\ c.program = inv[i].exePath
    /\ c.program = ResolvePath(platform, payload).path
    /\ c.args = GetProp(payload, KeyArgs)
    /\ c.cwd = GetProp(payload, KeyCwd)
    /\ UrlOf(i).kind = "valid"
         => /\ c.args = ArgsJson(UrlOf(i).req)
            /\ c.cwd = JString(UrlOf(i).req.cwd)
    /\ c.stopAtEntry = FALSE
    /\ c.name = T("Debug ") \o LastName(platform, c.program)

\* A request with three arguments, one of them empty, was started.
C10_Witness ==
  \E k \in 1..Len(startCalls) :
    /\ UrlOf(startCalls[k].inv).kind = "valid"
    /\ Len(UrlOf(startCalls[k].inv).req.args) = 3
    /\ startCalls[k].config.args = JArray(<<JString(T("-v")), JString(T("a b")), JString(<<>>)>>)

\* C11: every configuration given to startDebugging, on every platform, has
\* env.E2E_TEST_OUTPUT_DIR set to the working directory of the request; it
\* has MIMode and setupCommands exactly when its type is lldb or gdb, and
\* then MIMode is that type and setupCommands is empty.
C11_PlatformSettings ==
  \A k \in 1..Len(startCalls) :
    LET c == startCalls[k].config
        i == startCalls[k].inv
        payload == PoolDecoded[inv[i].url].payload IN
    /\ "env" \in DOMAIN c
    /\ c.env = [E2E_TEST_OUTPUT_DIR |-> GetProp(payload, KeyCwd)]
    /\ UrlOf(i).kind = "valid" => c.env.E2E_TEST_OUTPUT_DIR = JString(UrlOf(i).req.cwd)
    /\ ("MIMode" \in DOMAIN c) <=> (c.type \in {"lldb", "gdb"})
    /\ ("setupCommands" \in DOMAIN c) <=> (c.type \in {"lldb", "gdb"})
    /\ c.type \in {"lldb", "gdb"} => c.MIMode = c.type /\ c.setupCommands = <<>>
    /\ c.type \in {"lldb", "gdb", "cppvsdbg"}

\* A configuration for gdb was started on a host that is neither win32,
\* darwin nor linux, with the working directory in its environment.
C11_Witness ==
  \E k \in 1..Len(startCalls) :
    /\ platform = "freebsd"
    /\ startCalls[k].config.type = "gdb"
    /\ startCalls[k].config.MIMode = "gdb"
    /\ startCalls[k].config.env.E2E_TEST_OUTPUT_DIR = JString(T("/w/v"))

InfosOf(i) == SelectSeq(infoMessages, LAMBDA m : m.inv = i)

\* C12: an invocation whose startDebugging call resolved to a falsy value
\* and one whose call threw both fail at StartSession with one error
\* message and nothing else: the first says "Failed to start debugging
\* session", the second carries the message of the exception, both behind
\* "Debug launch failed: "; no listener is registered, no timer set and no
\* information message shown.
C12_StartOutcome ==
  \A i \in Invocations :
    inv[i].failure \in {"SessionStartFailed", "SessionStartThrew"} =>
      /\ inv[i].pc = "failed"
      /\ inv[i].steps = SubSeq(StepOrder, 1, 8)
      /\ Len(CallsOf(i)) = 1
      /\ Len(ErrorsOf(i)) = 1
      /\ inv[i].failure = "SessionStartFailed" =>
           ErrorsOf(i)[1].text = T("Debug launch failed: Failed to start debugging session")
      /\ inv[i].failure = "SessionStartThrew" =>
           \E message \in Thrown :
             ErrorsOf(i)[1].text = T("Debug launch failed: ") \o message
      /\ i \notin listeners
      /\ InfosOf(i) = <<>>
      /\ \A k \in DOMAIN timers : timers[k].by # i
      /\ \A k \in DOMAIN continueCalls : continueCalls[k].by # i

\* startDebugging threw "spawn ENOENT" and the user was shown it.
C12_Witness ==
  \E i \in Invocations :
    /\ inv[i].failure = "SessionStartThrew"
    /\ ErrorsOf(i) # <<>>
    /\ ErrorsOf(i)[1].text = T("Debug launch failed: spawn ENOENT")
    /\ listeners = {}

\* C13: when the active debug session changes, a listener sets a timer only
\* if it is given a session and the program of that session's configuration
\* is the listener's resolved path; for no session and for a session with
\* another program it sets none, no continue request is made and every
\* listener stays registered.
C13_Targeting ==
  [][events' # events =>
       /\ listeners' = listeners
       /\ continueCalls' = continueCalls
       /\ Len(timers') >= Len(timers)
       /\ SubSeq(timers', 1, Len(timers)) = timers
       /\ \A k \in (Len(timers) + 1)..Len(timers') :
            /\ timers'[k].by \in listeners
            /\ timers'[k].session \in sessions
            /\ ProgramOf(timers'[k].session) = inv[timers'[k].by].exePath]_vars

\* Both events were given to a listener that is still registered and set no
\* timer, while a session with another program exists.
C13_Witness ==
  \E i \in listeners, j \in sessions :
    /\ events = MaxEvents
    /\ ProgramOf(j) # inv[i].exePath
    /\ timers = <<>>
    /\ continueCalls = <<>>

ContinuesBy(i) == SelectSeq(continueCalls, LAMBDA c : c.by = i)

ContinuesTo(s) == SelectSeq(continueCalls, LAMBDA c : c.session = s)

\* C14: whatever events follow a successful start, the listener of an
\* invocation makes no more than one continue request.
C14_OneContinue ==
  \A i \in Invocations : Len(ContinuesBy(i)) <= 1

\* C15: every continue request was made by the timer of a listener that had
\* been given a session with its own program, GraceDelay milliseconds or
\* more after the event; a timer ends only by running its callback, which
\* makes the request and ends neither a session nor a listener.
C15_GracePeriod ==
  /\ [](\A k \in DOMAIN continueCalls :
          /\ continueCalls[k].waited >= GraceDelay
          /\ continueCalls[k].session \in sessions
          /\ inv[continueCalls[k].by].pc = "done"
          /\ ProgramOf(continueCalls[k].session) = inv[continueCalls[k].by].exePath)
  /\ [][/\ Len(continueCalls') >= Len(continueCalls)
        /\ Len(continueCalls') > Len(continueCalls) =>
             /\ timers # <<>>
             /\ Head(timers).elapsed >= GraceDelay
             /\ Len(continueCalls') = Len(continueCalls) + 1
             /\ continueCalls'[Len(continueCalls')].by = Head(timers).by
             /\ continueCalls'[Len(continueCalls')].session = Head(timers).session
        /\ Len(timers') < Len(timers) =>
             /\ timers' = Tail(timers)
             /\ Len(continueCalls') = Len(continueCalls) + 1
             /\ sessions' = sessions
             /\ listeners' = listeners
             /\ inv' = inv]_vars

\* A continue request was made after the delay and has settled, so that its
\* listener is gone, while the timer of a later event is still pending.
C15_Witness ==
  \E k \in DOMAIN continueCalls :
    /\ continueCalls[k].waited = GraceDelay
    /\ continueCalls[k].outcome = "sent"
    /\ continueCalls[k].by \notin listeners
    /\ timers # <<>>
    /\ Head(timers).by = continueCalls[k].by
    /\ Head(timers).elapsed < GraceDelay

TimerPending(i) == \E k \in DOMAIN timers : timers[k].by = i

\* C16: when the timers run and the continue requests settle, a listener
\* that was given a matching session makes its continue request and is then
\* unregistered; the step in which a request settles, fulfilled or
\* rejected, removes the listener that made it.
C16_ListenerRemoved ==
  /\ \A i \in Invocations :
       (i \in listeners /\ TimerPending(i))
         ~> (i \notin listeners /\ ContinuesBy(i) # <<>>)
  /\ [][\A k \in DOMAIN continueCalls :
          (continueCalls[k].outcome = "pending" /\ continueCalls'[k].outcome # "pending")
            => continueCalls[k].by \notin listeners']_vars

\* The continue request of a listener was rejected and the listener is
\* registered no longer.
C16_Witness ==
  \E k \in DOMAIN continueCalls :
    /\ continueCalls[k].outcome = "failed"
    /\ continueCalls[k].by \notin listeners
    /\ Len(ContinuesBy(continueCalls[k].by)) = 1
    /\ ~TimerPending(continueCalls[k].by)

StartsWith(text, prefix) ==
  Len(text) >= Len(prefix) /\ SubSeq(text, 1, Len(prefix)) = prefix

\* The text thrown for each kind of failure of invocation i.
FailureText(i) ==
  CASE inv[i].failure = "NoWorkspace" ->
         {T("No workspace folder is open. Please open a workspace before launching the debugger.")}
    [] inv[i].failure = "MissingPayload" ->
         {T("Invalid debug URL: missing payload parameter")}
    [] inv[i].failure = "MalformedPayload" ->
         {T("Failed to decode debug payload: ") \o PoolDecoded[inv[i].url].error}
    [] inv[i].failure = "InvalidRequest" ->
         {T("Invalid payload: missing exe, args, or cwd")}
    [] inv[i].failure = "InvalidArgType" ->
         {T("The \"path\" argument must be of type string")}
    [] inv[i].failure = "ExecutableNotFound" ->
         {T("Executable not found: ") \o inv[i].exePath}
    [] inv[i].failure = "SessionStartFailed" ->
         {T("Failed to start debugging session")}
    [] inv[i].failure = "SessionStartThrew" -> Thrown
    [] OTHER -> {}

\* C17: an invocation that failed in one of the steps up to StartSession
\* showed one error message, "Debug launch failed: " followed by the text
\* of that failure, and no information message; an invocation that has not
\* failed showed no error message.
C17_OneErrorMessage ==
  \A i \in Invocations :
    /\ inv[i].pc = "failed" <=> inv[i].failure # "none"
    /\ inv[i].pc = "failed" =>
         /\ Len(ErrorsOf(i)) = 1
         /\ \E text \in FailureText(i) :
              ErrorsOf(i)[1].text = T("Debug launch failed: ") \o text
         /\ InfosOf(i) = <<>>
         /\ i \notin listeners
    /\ inv[i].pc # "failed" => ErrorsOf(i) = <<>>
    /\ (Entered(i) /\ FailingSteps(i) # {}) => inv[i].pc = "failed"

\* The file of a valid request was not there and the user was told its path.
C17_Witness ==
  \E i \in Invocations :
    /\ inv[i].failure = "ExecutableNotFound"
    /\ Len(ErrorsOf(i)) = 1
    /\ ErrorsOf(i)[1].text = T("Debug launch failed: Executable not found: /w/bin/app")
    /\ infoMessages = <<>>

\* The information message for a path and a debugger.
InfoText ==
  [words \in {"Debugging", "with"} \cup {"cppvsdbg", "lldb", "gdb"} |-> T(words)]

\* C18: an invocation whose startDebugging call resolved true showed one
\* information message, "Debugging " with the base name of the resolved
\* path and the debugger of the host, and no error message, whatever became
\* of its continue requests; the only error messages are those of failed
\* invocations.
C18_SuccessNotification ==
  /\ \A i \in Invocations :
       /\ inv[i].pc = "done" =>
            /\ Len(InfosOf(i)) = 1
            /\ InfosOf(i)[1].text =
                 InfoText["Debugging"] \o <<32>> \o LastName(platform, inv[i].exePath)
                   \o <<32>> \o InfoText["with"] \o <<32>> \o InfoText[BackendOf(platform)]
            /\ ErrorsOf(i) = <<>>
       /\ inv[i].pc # "done" => InfosOf(i) = <<>>
  /\ Len(errorMessages) = Cardinality({i \in Invocations : inv[i].pc = "failed"})

InfoAppGdb == T("Debugging app with gdb")

\* The continue request of a started invocation was rejected; the user has
\* its information message and no error message.
C18_Witness ==
  \E k \in DOMAIN continueCalls :
    /\ continueCalls[k].outcome = "failed"
    /\ inv[continueCalls[k].by].pc = "done"
    /\ InfosOf(continueCalls[k].by) # <<>>
    /\ InfosOf(continueCalls[k].by)[1].text = InfoAppGdb
    /\ errorMessages = <<>>

\* C19: with invocations side by side, the listener of an invocation makes
\* continue requests only to the session that invocation started, and no
\* session is sent more than one continue request.
C19_Independence ==
  /\ \A k \in DOMAIN continueCalls : continueCalls[k].session = continueCalls[k].by
  /\ \A s \in Invocations : Len(ContinuesTo(s)) <= 1

\* C20: an invocation calls startDebugging at most once, whether the call
\* resolves true, resolves false or throws: a call is made only by an
\* invocation that has made none, and it is made when the invocation has
\* run the steps up to StartSession.
C20_NoRetry ==
  /\ [](\A i \in Invocations :
          /\ Len(CallsOf(i)) <= 1
          /\ Len(CallsOf(i)) = 1 <=> Len(inv[i].steps) >= 8)
  /\ [][Len(startCalls') # Len(startCalls) =>
          /\ startCalls' = Append(startCalls, startCalls'[Len(startCalls')])
          /\ inv[startCalls'[Len(startCalls')].inv].pc = "idle"]_vars

\* Both invocations made their call; one call resolved false and that
\* invocation has ended with its one call.
C20_Witness ==
  \E i \in Invocations :
    /\ inv[i].failure = "SessionStartFailed"
    /\ Len(CallsOf(i)) = 1
    /\ Len(startCalls) = MaxInvocations

C24_EventObserved ==
  [][(events' # events /\ activeSession' \in Invocations)
       => \/ activeSession' \in listeners
          \/ ContinuesBy(activeSession') # <<>>]_vars

\* C25: once the listener of a started invocation is unregistered, that
\* invocation makes no continue request any more.
C25_NoContinueAfterDispose ==
  [][\A i \in Invocations :
       (inv[i].pc = "done" /\ i \notin listeners)
         => \A k \in DOMAIN continueCalls' :
              continueCalls'[k].by = i => k \in DOMAIN continueCalls]_vars

\* C26: dispose is called at most once on the subscription of each
\* invocation, whatever events are delivered and however the continue
\* requests end.
C26_DisposeOnce ==
  \A i \in Invocations : DisposeCalls(i) <= 1

C30_ValidatedRequest ==
  \A i \in Invocations :
    (Entered(i) /\ Len(inv[i].steps) >= 4) =>
      LET payload == PoolDecoded[inv[i].url].payload
          exe == GetProp(payload, KeyExe)
          args == GetProp(payload, KeyArgs)
          cwd == GetProp(payload, KeyCwd) IN
      /\ exe.t = "string" /\ exe.v # <<>>
      /\ args.t = "array"
      /\ \A k \in DOMAIN args.v : args.v[k].t = "string"
      /\ cwd.t = "string" /\ cwd.v # <<>>

C22_SideEffects ==
  encoder.pc # "idle" =>
    /\ encoder.request.exe = <<>> =>
         /\ encoder.pc \in {"detect", "parse", "failed"}
         /\ encoder.payload = <<>>
         /\ encoder.stdout = <<>>
         /\ encoder.dispatched = <<>>
         /\ encoder.pc = "failed" => encoder.exit # 0 /\ encoder.stderr # <<>>
    /\ encoder.options.urlOnly =>
         /\ encoder.dispatched = <<>>
         /\ encoder.pc = "done" => Len(encoder.stdout) = 1
    /\ Len(encoder.dispatched) <= 1
    /\ \A k \in DOMAIN encoder.dispatched :
         encoder.dispatched[k].openUrl = encoder.stdout[1]

C22_Witness ==
  /\ encoder.pc = "failed"
  /\ encoder.request.exe = <<>>
  /\ encoder.options.separator
  /\ encoder.env.injection
  /\ encoder.stderr = <<"EmptyExecutable">>
  /\ encoder.stdout = <<>>

\* C31: the path ResolvePath produced for a request that passed Validate is
\* an absolute path of the host.
C31_ResolvedAbsolute ==
  \A i \in Invocations :
    (Entered(i) /\ Len(inv[i].steps) >= 5) =>
      PathIsAbsolute(platform, inv[i].exePath)

\* Whether sub occurs in text.
Contains(text, sub) ==
  \E k \in 1..(Len(text) - Len(sub) + 1) : SubSeq(text, k, k + Len(sub) - 1) = sub

\* C32: the message of an InvalidRequest failure names exe exactly when exe
\* is missing or empty, args exactly when args is not a sequence and cwd
\* exactly when cwd is missing or empty.
C32_NamesMissingFields ==
  \A i \in Invocations :
    (Entered(i) /\ inv[i].failure = "InvalidRequest") =>
      LET payload == PoolDecoded[inv[i].url].payload
          text == ErrorsOf(i)[1].text IN
      /\ Contains(text, KeyExe) <=> ~Truthy(GetProp(payload, KeyExe))
      /\ Contains(text, KeyArgs) <=> GetProp(payload, KeyArgs).t # "array"
      /\ Contains(text, KeyCwd) <=> ~Truthy(GetProp(payload, KeyCwd))

\* C33: every continue request goes to the session that is the active debug
\* session at the moment the request is sent, when the grace period expires.
C33_ActiveAtExpiry ==
  [][(Len(continueCalls') > Len(continueCalls) /\ activeSession # Unknown) =>
       continueCalls'[Len(continueCalls')].session = activeSession]_vars

\* C34: no step of the URL handler or of its callbacks (the start of an
\* invocation, the outcome of its start call, a session event, a timer, a
\* settled continue request) changes a key of globalState, whatever the
\* install routine is doing meanwhile; and the handler is given the URI
\* only, so what an invocation does is what HandleDebugUriSync makes of its
\* URL and of the workspace, the files and the platform at that moment.
C34_Stateless ==
  /\ [][<<inv, startCalls, errorMessages, infoMessages, sessions, activeSession,
          events, timers, continueCalls>>'
          # <<inv, startCalls, errorMessages, infoMessages, sessions, activeSession,
               events, timers, continueCalls>>
        => globalState' = globalState]_vars
  /\ [][\A i \in Invocations :
          (inv[i].pc = "idle" /\ inv'[i].pc # "idle") =>
             LET Use(r) ==
                   /\ inv'[i].failure = r.failure
                   /\ inv'[i].steps = r.steps
                   /\ inv'[i].exePath = r.exePath
             IN Use(SyncOutcome[inv'[i].url, workspaceFolders, files, platform])]_vars

\* A launch ran, with its continue request, while the install was saving
\* the version it installed.
C34_Witness ==
  /\ inv[1].pc = "done"
  /\ \E k \in DOMAIN continueCalls : continueCalls[k].outcome = "failed"
  /\ activation.pc = "versionSaved"
  /\ globalState.installedCliVersion = bundledVersion
  /\ globalState.cliInstallAttempted = "undefined"

\* C35: from the step that activates the extension until the window is
\* closed the URL handler is registered, whatever activate is waiting for
\* (the install, a write of its cache, its notification, its prompt), and
\* every step that logs "URL handler is registered and ready" ends in a
\* state in which the handler is registered.
C35_ActivationOrdering ==
  /\ [](activation.pc # "inactive" <=> handlerRegistered)
  /\ [][readyLines' # readyLines => handlerRegistered']_vars
  /\ [][(activation.pc = "inactive" /\ activation'.pc # "inactive")
          => handlerRegistered']_vars

\* A URL was handled while the install was still running.
C35_Witness ==
  /\ activation.pc = "installing"
  /\ readyLines = 0
  /\ inv[1].pc = "awaitStart"
  /\ Len(startCalls) = 1

\* The last entry of the install log, if any.
LastEntry(lines) == IF lines = <<>> THEN "none" ELSE lines[Len(lines)]

\* C36: an activation installs exactly when the cached version differs from
\* the bundled one; when the routine is over and the last install succeeded
\* the cached version is the bundled one and the install-attempted flag is
\* not set; a failed install leaves the cached version as it was, so the next
\* activation installs again.
C36_VersionCache ==
  /\ [][(activation.pc = "inactive" /\ activation'.pc # "inactive") =>
          ((LastEntry(installLog') = "upToDate" /\ Len(installLog') > Len(installLog))
             <=> globalState.installedCliVersion = bundledVersion)]_vars
  /\ []((activation.pc = "ready" /\ LastEntry(installLog) \in {"installed", "notified"}) =>
          /\ globalState.installedCliVersion = bundledVersion
          /\ globalState.cliInstallAttempted # "true")
  /\ [][(Len(installLog') > Len(installLog)
           /\ installLog'[Len(installLog) + 1] = "failed") =>
          globalState'.installedCliVersion = globalState.installedCliVersion]_vars

\* C37: between two prompts of the install log there is a successful
\* install, and no step shows the prompt to an extension activated under
\* test.
C37_PromptOnce ==
  /\ [](\A j, k \in DOMAIN installLog :
          (j < k /\ installLog[j] = "prompt" /\ installLog[k] = "prompt") =>
            \E m \in (j + 1)..(k - 1) : installLog[m] = "installed")
  /\ [][(\E k \in DOMAIN installLog' : k > Len(installLog) /\ installLog'[k] = "prompt")
          => ~isTestMode']_vars

====
